---- MODULE Spec2Model ----
(***************************************************************************)
(* Recursive quantile forecast (backend/src/app/ml/xgb_core.py) and the    *)
(* walk-forward backtest (backend/src/app/api/routes/metrics.py).          *)
(*                                                                         *)
(* Numbers.  Weights are integers (kg).  Log-space quantities are fixed    *)
(* point with two decimals (Log1p(1) = 69 stands for ln 2 = 0.69).         *)
(* Timestamps are hours since 2025-01-01T00:00, dates are days since       *)
(* 2025-01-01.  Python lists are objects of a heap so that aliasing is     *)
(* visible.                                                                *)
(***************************************************************************)
EXTENDS Integers, Sequences, FiniteSets, TLC

VARIABLES
    pc,              \* position of the modelled call
    heap,            \* list objects: name -> contents
    start_date,      \* forecast_next_days argument, [day, hour]
    horizon_days,    \* forecast_next_days argument
    history_in,      \* contents of the history list at the time of the call
    models,          \* the loaded QuantileModelSet: booster ids and feature_cols
    current,         \* forecast_next_days local `current` (timestamp)
    out,             \* forecast_next_days local `out`
    rows,            \* the feature rows built so far, one per step (line 155)
    series,          \* compute_naive_backtest_metrics argument: day -> raw value
    bt_start_date,   \* compute_naive_backtest_metrics argument start_date (a day)
    backtest_days,   \* compute_naive_backtest_metrics argument
    win,             \* [from, to, idx, window]: the backtest window and its actuals
    preds,           \* _predict_model_backtest local `preds`
    predicted,       \* what _predict_model_backtest returned: [forecasts, method, error]
    model_forecasts, \* compute_naive_backtest_metrics local `model_forecasts`
    report,          \* the MetricsResponse returned
    fc_calls,        \* log of the forecast_next_days calls made by the backtest
    walk_raised,     \* the exception a forecast_next_days call of the backtest ended with
    artifacts,       \* the model and feature-list files present under MODELS_DIR
    lru,             \* the lru_cache of each loader: entries [call, obj], oldest first
    storage_reads,   \* per loader call key: how often its artifact was read
    served,          \* per loader call key: the objects returned so far, in order
    th,              \* per caller thread: [pc, call, obj] of its loader call
    ncalls,          \* loader calls started so far
    requests,        \* log of the forecast_next_days calls served by the process
    px,              \* the predict_xgb call: [features, error, preds]
    runs,            \* table runs: id -> the row [status, finished_at, message, error]
    run_series,      \* table run_series: run_id -> the row [series_json, generated_at]
    rh,              \* per request thread: [pc, run_id, sr] of its get_run_series call
    now,             \* the latest reading of the clock behind now_iso()
    responses,       \* log of the get_run_series responses: [run_id, code, series]
    series_writes    \* per run id: how often a run_series row was written

fvars == <<start_date, horizon_days, history_in, current, out, rows>>

bvars == <<series, bt_start_date, backtest_days, win, preds, predicted,
           model_forecasts, report, fc_calls, walk_raised>>

lvars == <<artifacts, lru, storage_reads, served, th, ncalls>>

rvars == <<runs, run_series, rh, now, responses, series_writes>>

svars == <<requests, px, rvars>>

vars == <<pc, heap, models, fvars, bvars, lvars, svars>>

----------------------------------------------------------------------------
(* Bounds of the exploration *)

MaxHistLen == 2
MaxHorizon == 2

HistVals == {-1, 0, 3}
StartDays == {30}
StartHours == {0, 15}
BoosterIds == 0..3

----------------------------------------------------------------------------
(* Arithmetic helpers *)

Max(a, b) == IF a >= b THEN a ELSE b

Min(a, b) == IF a <= b THEN a ELSE b

Abs(a) == IF a < 0 THEN -a ELSE a

RECURSIVE SumSeq(_)
SumSeq(s) == IF s = <<>> THEN 0 ELSE Head(s) + SumSeq(Tail(s))

ISqrt(n) == CHOOSE r \in 0..(n + 1) : r * r <= n /\ (r + 1) * (r + 1) > n

LastN(s, n) == IF Len(s) >= n THEN SubSeq(s, Len(s) - n + 1, Len(s)) ELSE s

SeqsUpTo(S, n) == UNION {[1..k -> S] : k \in 0..n}

----------------------------------------------------------------------------
(* numpy conversions, two-decimal fixed point *)

Log1pTable == <<0, 69, 110, 139, 161, 179, 195, 208, 220, 230, 240>>

\* np.log1p on a clipped (>= 0) weight
Log1p(v) == Log1pTable[v + 1]

\* np.expm1 on a raw log-scale prediction, rounded to the nearest kg
Expm1(l) ==
    IF l < 0
    THEN (IF l <= -69 THEN -1 ELSE 0)
    ELSE CHOOSE v \in 0..(Len(Log1pTable) - 1) :
            \A w \in 0..(Len(Log1pTable) - 1) :
                Abs(Log1p(v) - l) < Abs(Log1p(w) - l)
                \/ (Abs(Log1p(v) - l) = Abs(Log1p(w) - l) /\ v <= w)

----------------------------------------------------------------------------
(* pandas calendar *)

HoursPerDay == 24

\* pd.to_datetime(start_date): ISO text -> timestamp
ToDatetime(sd) == sd.day * HoursPerDay + sd.hour

\* Timestamp.normalize(): midnight of the same day
Normalize(ts) == (ts \div HoursPerDay) * HoursPerDay

\* Timestamp.date()
DateOf(ts) == ts \div HoursPerDay

\* 2025-01-01 is a Wednesday (dayofweek 2)
DayOfWeek(ts) == (DateOf(ts) + 2) % 7

MonthStarts == <<0, 31, 59, 90, 120, 151, 181, 212, 243, 273, 304, 334>>

MonthOf(ts) ==
    LET d == DateOf(ts) % 365
    IN  CHOOSE m \in 1..12 :
            /\ MonthStarts[m] <= d
            /\ (m = 12 \/ d < MonthStarts[m + 1])

----------------------------------------------------------------------------
(* _compute_next_row_features *)

AllFeatures ==
    <<"dow", "month", "is_weekend", "lag_1", "lag_7", "lag_14", "lag_28",
      "roll_mean_7", "roll_mean_14", "roll_mean_28",
      "roll_std_7", "roll_std_14", "roll_std_28">>

FeatureLists == {AllFeatures, <<"lag_1", "roll_mean_7", "roll_std_7", "dow">>}

\* y = np.clip(np.array(history_y), 0.0, None)
ClipList(s) == [k \in 1..Len(s) |-> Max(0, s[k])]

\* y_log = np.log1p(y)
YLog(history_y) ==
    LET y == ClipList(history_y)
    IN  [k \in 1..Len(y) |-> Log1p(y[k])]

\* a lag that is padded with zero when the history is shorter than l
GetLagZeroPadded(y_log, l) == IF Len(y_log) >= l THEN y_log[Len(y_log) - l + 1] ELSE 0

\* get_lag(l); y_log[0] of an empty array is an IndexError (see FeaturesRaise)
GetLag(y_log, l) == IF Len(y_log) >= l THEN y_log[Len(y_log) - l + 1] ELSE y_log[1]

\* rolling statistics over the whole history, the latest value included
YLogHistUnshifted(y_log) == y_log

\* y_log_hist = y_log[:-1] if len(y_log) > 1 else y_log
YLogHist(y_log) == IF Len(y_log) > 1 THEN SubSeq(y_log, 1, Len(y_log) - 1) ELSE y_log

RollTail(y_log_hist, w) == LastN(y_log_hist, w)

RollMean(y_log_hist, w) ==
    LET tail == RollTail(y_log_hist, w)
    IN  IF Len(tail) > 0 THEN SumSeq(tail) \div Len(tail) ELSE 0

RollStd(y_log_hist, w) ==
    LET tail == RollTail(y_log_hist, w)
        n == Len(tail)
        mu == SumSeq(tail) \div n
        sq == [k \in 1..n |-> (tail[k] - mu) * (tail[k] - mu)]
    IN  IF n > 0 THEN ISqrt(SumSeq(sq) \div n) ELSE 0

\* the feats dict is built eagerly, so an empty history raises IndexError in
\* get_lag(1) whatever feature_cols is
FeaturesRaise(history_y) == Len(history_y) = 0

Feats(history_y, next_date) ==
    LET y_log == YLog(history_y)
        y_log_hist == YLogHist(y_log)
        dow == DayOfWeek(next_date)
    IN  [dow |-> dow,
         month |-> MonthOf(next_date),
         is_weekend |-> IF dow >= 5 THEN 1 ELSE 0,
         lag_1 |-> GetLag(y_log, 1),
         lag_7 |-> GetLag(y_log, 7),
         lag_14 |-> GetLag(y_log, 14),
         lag_28 |-> GetLag(y_log, 28),
         roll_mean_7 |-> RollMean(y_log_hist, 7),
         roll_mean_14 |-> RollMean(y_log_hist, 14),
         roll_mean_28 |-> RollMean(y_log_hist, 28),
         roll_std_7 |-> RollStd(y_log_hist, 7),
         roll_std_14 |-> RollStd(y_log_hist, 14),
         roll_std_28 |-> RollStd(y_log_hist, 28)]

\* X = [[row[c] for c in feature_cols]] of the row returned for feature_cols
FeatureRow(history_y, next_date, feature_cols) ==
    LET feats == Feats(history_y, next_date)
    IN  [k \in 1..Len(feature_cols) |-> feats[feature_cols[k]]]

----------------------------------------------------------------------------
(* The trained boosters.  A booster is an opaque deterministic function of *)
(* the feature row; the family below is indexed by a booster id so that    *)
(* the three quantile models can disagree in every possible way.           *)

RawLogs == <<-100, 0, 69, 139>>

\* a booster whose prediction drifts with the number of calls served so far
BoosterPredictDrifting(id, X) ==
    RawLogs[((id + SumSeq(X) + Len(requests)) % Len(RawLogs)) + 1]

\* Booster.predict on a one-row DMatrix: a function of the booster and the row
BoosterPredict(id, X) == RawLogs[((id + SumSeq(X)) % Len(RawLogs)) + 1]

ModelSets ==
    [b50 : BoosterIds, b05 : BoosterIds, b95 : BoosterIds, feature_cols : FeatureLists]

----------------------------------------------------------------------------
(* forecast_next_days, one iteration of the loop *)

\* StepPoint without lines 173-174
StepPointNoUpperClamp(M, hist, cur) ==
    LET X == FeatureRow(hist, cur, M.feature_cols)
        y50 == Max(0, Expm1(BoosterPredict(M.b50, X)))
        y05c == Max(0, Expm1(BoosterPredict(M.b05, X)))
        y95c == Max(0, Expm1(BoosterPredict(M.b95, X)))
        y05 == IF y05c > y50 THEN y50 ELSE y05c
    IN  [date |-> DateOf(cur), forecast |-> y50, p05 |-> y05, p95 |-> y95c]

\* StepPoint restoring the band by moving the median up to p05
StepPointMedianMoved(M, hist, cur) ==
    LET X == FeatureRow(hist, cur, M.feature_cols)
        y50c == Max(0, Expm1(BoosterPredict(M.b50, X)))
        y05 == Max(0, Expm1(BoosterPredict(M.b05, X)))
        y95c == Max(0, Expm1(BoosterPredict(M.b95, X)))
        y50 == IF y05 > y50c THEN y05 ELSE y50c
        y95 == IF y95c < y50 THEN y50 ELSE y95c
    IN  [date |-> DateOf(cur), forecast |-> y50, p05 |-> y05, p95 |-> y95]

\* lines 155-183: the point emitted for the working history `hist`
StepPoint(M, hist, cur) ==
    LET X == FeatureRow(hist, cur, M.feature_cols)
        y50raw == Expm1(BoosterPredict(M.b50, X))
        y05raw == Expm1(BoosterPredict(M.b05, X))
        y95raw == Expm1(BoosterPredict(M.b95, X))
        y50 == Max(0, y50raw)
        y05c == Max(0, y05raw)
        y95c == Max(0, y95raw)
        y05 == IF y05c > y50 THEN y50 ELSE y05c
        y95 == IF y95c < y50 THEN y50 ELSE y95c
    IN  [date |-> DateOf(cur), forecast |-> y50, p05 |-> y05, p95 |-> y95]

\* feeding the lower band back instead of the median
FeedbackP05(pt) == pt.p05

\* line 186: hist.append(y50)
Feedback(pt) == pt.forecast

\* line 187: current + pd.Timedelta(days=1)
NextDay(cur) == cur + HoursPerDay

\* hist bound to the argument itself (hist = history_daily_y)
HistObjectAliased(arg) == arg

\* line 149: the comprehension builds a new list object; hist is not the argument
HistObject(arg) == "hist"

\* line 149: hist = [float(max(0.0, v)) for v in history_daily_y]
ClampList(s) == [k \in 1..Len(s) |-> Max(0, s[k])]

ListIds == {"history_daily_y", "hist", "history_values", "actual_window", "bt_hist"}

EmptyHeap == [o \in ListIds |-> <<>>]

----------------------------------------------------------------------------
(* forecast_next_days as a state machine (models already loaded) *)

None == "None"

\* an Optional[float]: None, or a value
Null == [defined |-> FALSE]

Some(v) == [defined |-> TRUE, value |-> v]

NoWindow == [from |-> None, to |-> None, idx |-> <<>>, window |-> <<>>]

NoPrediction == [forecasts |-> <<>>, method |-> None, error |-> None]

NoReport == [returned |-> FALSE]

----------------------------------------------------------------------------
(* load_model and load_feature_list behind functools.lru_cache.  A call is  *)
(* the cache lookup of the wrapper, then on a miss the body of the function *)
(* (path lookup and existence check, then the read), then the wrapper       *)
(* storing the result.  Other threads may run between these steps.  Every   *)
(* read of an artifact builds a new object; an object is named by the       *)
(* number of the read that built it.                                        *)

MaxCalls == 3

Threads == {1, 2}

\* the model keys callers pass: one with artifacts registered, one without
LoadModelKeys == {"export", "nokey"}

\* keys of MODEL_FILES and FEATURE_FILES among them
KnownModelKeys == {"export"}

LoadQuantiles == {"p50", "p05", "p95"}

NoQuantile == "-"

LoaderFns == {"load_model", "load_feature_list"}

\* the calls load_model(model_key, q) and load_feature_list(model_key); the
\* arguments are the cache key
LoaderCalls ==
    {[fn |-> "load_model", model_key |-> m, q |-> q] : m \in LoadModelKeys, q \in LoadQuantiles}
        \cup {[fn |-> "load_feature_list", model_key |-> m, q |-> NoQuantile] :
                m \in LoadModelKeys}

\* MODEL_FILES[(model_key, q)] and FEATURE_FILES[model_key] have an entry
HasFileEntry(c) == c.model_key \in KnownModelKeys

ValidCalls == {c \in LoaderCalls : HasFileEntry(c)}

\* @lru_cache(maxsize=32)
LoadModelMaxSize == 32

\* @lru_cache(maxsize=8)
FeatureListMaxSize == 8

\* the keys of MODEL_FILES (lines 19-32) and of FEATURE_FILES (lines 34-39)
ModelFileKeys ==
    {<<m, q>> : m \in {"import", "tra_import", "export", "tra_export"},
                q \in {"p50", "p05", "p95"}}

FeatureFileKeys == {"import", "tra_import", "export", "tra_export"}

\* caches of a single entry
MaxSizeOne(fn) == 1

MaxSize(fn) == IF fn = "load_model" THEN LoadModelMaxSize ELSE FeatureListMaxSize

NoCall == [fn |-> None, model_key |-> None, q |-> None]

IdleThread == [pc |-> "idle", call |-> NoCall, obj |-> 0]

\* what a call handed back: an object, or the exception it raised
Returned(obj) == [obj |-> obj, error |-> None]

Raised(e) == [obj |-> 0, error |-> e]

CacheKeys(entries) == {entries[i].call : i \in 1..Len(entries)}

CacheIndex(entries, c) == CHOOSE i \in 1..Len(entries) : entries[i].call = c

CacheGet(entries, c) == entries[CacheIndex(entries, c)].obj

\* a hit moves the entry to the most recently used end
CacheTouch(entries, c) ==
    LET i == CacheIndex(entries, c)
    IN  SubSeq(entries, 1, i - 1) \o SubSeq(entries, i + 1, Len(entries)) \o <<entries[i]>>

\* a wrapper that never stores the result
CachePutNothing(entries, c, obj, maxsize) == entries

\* the wrapper stores a new result, dropping the least recently used entry
\* when the cache is full
CachePut(entries, c, obj, maxsize) ==
    LET added == Append(entries, [call |-> c, obj |-> obj])
    IN  IF Len(added) > maxsize THEN Tail(added) ELSE added

LoaderIdle ==
    /\ artifacts = {}
    /\ lru = [fn \in LoaderFns |-> <<>>]
    /\ storage_reads = [c \in LoaderCalls |-> 0]
    /\ served = [c \in LoaderCalls |-> <<>>]
    /\ th = [t \in Threads |-> IdleThread]
    /\ ncalls = 0

\* no predict_xgb call
NoPredictCall == [features |-> None, error |-> None, preds |-> <<>>]

\* the run ids uuid4 hands out (line 393), in the order they are handed out
MaxRuns == 2
RunIds == 1..MaxRuns

\* get_run_series requests started during one exploration
MaxSeriesRequests == 3

\* the clock readings
MaxClock == 3

\* a request thread outside get_run_series
IdleHandler == [pc |-> "idle", run_id |-> 0, sr |-> None]

\* an empty database and no request
RunsIdle ==
    /\ runs = [r \in RunIds |-> Null]
    /\ run_series = [r \in RunIds |-> Null]
    /\ rh = [t \in Threads |-> IdleHandler]
    /\ now = 0
    /\ responses = <<>>
    /\ series_writes = [r \in RunIds |-> 0]

ServeIdle ==
    /\ requests = <<>>
    /\ px = NoPredictCall
    /\ RunsIdle

BtIdle ==
    /\ series = <<>>
    /\ bt_start_date = 0
    /\ backtest_days = 0
    /\ win = NoWindow
    /\ preds = <<>>
    /\ predicted = NoPrediction
    /\ model_forecasts = <<>>
    /\ report = NoReport
    /\ fc_calls = <<>>
    /\ walk_raised = None

Init ==
    /\ pc = "call"
    /\ history_in \in SeqsUpTo(HistVals, MaxHistLen)
    /\ heap = [EmptyHeap EXCEPT !["history_daily_y"] = history_in]
    /\ start_date \in [day : StartDays, hour : StartHours]
    /\ horizon_days \in -1..MaxHorizon
    /\ models \in ModelSets
    /\ current = 0
    /\ out = <<>>
    /\ rows = <<>>
    /\ BtIdle
    /\ LoaderIdle
    /\ ServeIdle

\* lines 149-152
Enter ==
    /\ pc = "call"
    /\ heap' = [heap EXCEPT ![HistObject("history_daily_y")] = ClampList(heap["history_daily_y"])]
    /\ current' = Normalize(ToDatetime(start_date))
    /\ out' = <<>>
    /\ pc' = "loop"
    /\ UNCHANGED <<start_date, horizon_days, history_in, models, rows, bvars>>
    /\ UNCHANGED lvars
    /\ UNCHANGED svars

\* lines 154-187, one iteration that completes
Step ==
    /\ pc = "loop"
    /\ Len(out) < horizon_days
    /\ ~FeaturesRaise(heap[HistObject("history_daily_y")])
    /\ rows' = Append(rows, FeatureRow(heap[HistObject("history_daily_y")],
                                       current, models.feature_cols))
    /\ out' = Append(out, StepPoint(models, heap[HistObject("history_daily_y")], current))
    \* line 186 appends the y50 that line 177-183 has just put into out
    /\ heap' = [heap EXCEPT ![HistObject("history_daily_y")] =
                    Append(@, Feedback(out'[Len(out')]))]
    /\ current' = NextDay(current)
    /\ UNCHANGED <<pc, start_date, horizon_days, history_in, models, bvars>>
    /\ UNCHANGED lvars
    /\ UNCHANGED svars

\* line 155 raising IndexError out of the loop
StepRaise ==
    /\ pc = "loop"
    /\ Len(out) < horizon_days
    /\ FeaturesRaise(heap[HistObject("history_daily_y")])
    /\ pc' = "raised"
    /\ UNCHANGED <<heap, models, fvars, bvars>>
    /\ UNCHANGED lvars
    /\ UNCHANGED svars

\* line 189
Return ==
    /\ pc = "loop"
    /\ Len(out) >= horizon_days
    /\ pc' = "returned"
    /\ UNCHANGED <<heap, models, fvars, bvars>>
    /\ UNCHANGED lvars
    /\ UNCHANGED svars

Next == Enter \/ Step \/ StepRaise \/ Return

Spec == Init /\ [][Next]_vars

----------------------------------------------------------------------------
(* forecast_next_days as one call on the heap, for callers inside the      *)
(* program: the same lines, run to completion                              *)

RECURSIVE ForecastLoop(_, _, _, _, _, _)
ForecastLoop(h, tgt, M, cur, k, acc) ==
    IF k <= 0
    THEN [heap |-> h, raised |-> FALSE, out |-> acc]
    ELSE IF FeaturesRaise(h[tgt])
    THEN [heap |-> h, raised |-> TRUE, out |-> <<>>]
    ELSE LET pt == StepPoint(M, h[tgt], cur)
         IN  ForecastLoop([h EXCEPT ![tgt] = Append(@, Feedback(pt))],
                          tgt, M, NextDay(cur), k - 1, Append(acc, pt))

ForecastNextDays(h, arg, M, sd, horizon) ==
    LET tgt == HistObject(arg)
        h1 == [h EXCEPT ![tgt] = ClampList(h[arg])]
    IN  ForecastLoop(h1, tgt, M, Normalize(ToDatetime(sd)), horizon, <<>>)

----------------------------------------------------------------------------
(* compute_naive_backtest_metrics and _predict_model_backtest *)

MaxSeriesDays == 3
MaxBacktestDays == 2
MaxScoreDays == 3

FirstSeriesDay == 10
SeriesDayRange == FirstSeriesDay..(FirstSeriesDay + MaxSeriesDays - 1)
SeriesVals == {-1, 0, 3}
SeriesSet == UNION {[D -> SeriesVals] : D \in SUBSET SeriesDayRange}
BtStartDays == {FirstSeriesDay, FirstSeriesDay + 2, FirstSeriesDay + MaxSeriesDays + 1}
BacktestDaysSet == -1..MaxBacktestDays
BacktestModelSets == {M \in ModelSets : M.b05 = 0 /\ M.b95 = 3 /\ M.feature_cols = AllFeatures}

\* the exceptions a forecast_next_days call can end with
Exceptions == {"FileNotFoundError", "XGBoostError"}

SetMax(S) == CHOOSE x \in S : \A y \in S : y <= x

SetMin(S) == CHOOSE x \in S : \A y \in S : x <= y

RECURSIVE SortedSeq(_)
SortedSeq(S) == IF S = {} THEN <<>> ELSE <<SetMin(S)>> \o SortedSeq(S \ {SetMin(S)})

\* _normalize_daily_series: values clipped at 0, index sorted; a sequence of
\* [day, value] in index order
NormalizeDailySeries(s) ==
    LET days == SortedSeq(DOMAIN s)
    IN  [k \in 1..Len(days) |-> [day |-> days[k], value |-> Max(0, s[days[k]])]]

\* pd.date_range(win_from, win_to, freq="D")
DateRange(from, to) == [k \in 1..Max(0, to - from + 1) |-> from + k - 1]

\* a window of the observed days only
ReindexObservedOnly(daily, idx) ==
    LET Observed(d) == \E j \in 1..Len(daily) : daily[j].day = d
        kept == SelectSeq(idx, Observed)
    IN  [k \in 1..Len(kept) |->
            daily[CHOOSE j \in 1..Len(daily) : daily[j].day = kept[k]].value]

\* daily.reindex(idx, fill_value=0.0).values
Reindex(daily, idx) ==
    [k \in 1..Len(idx) |->
        IF \E j \in 1..Len(daily) : daily[j].day = idx[k]
        THEN daily[CHOOSE j \in 1..Len(daily) : daily[j].day = idx[k]].value
        ELSE 0]

\* [float(v) for v in daily[daily.index < idx[0]].values]
HistoryBefore(daily, first) ==
    LET Before(e) == e.day < first
        sel == SelectSeq(daily, Before)
    IN  [k \in 1..Len(sel) |-> sel[k].value]

\* lines 156-159
WinTo(daily, start) == Min(start - 1, daily[Len(daily)].day)

\* the window start without the floor on the number of days
WinFromUnclamped(win_to, bdays) == win_to - (bdays - 1)

\* line 159
WinFrom(win_to, bdays) == win_to - (Max(1, bdays) - 1)

XgbMethod == "xgb_walk_forward_1d"

FallbackMethod == "naive_persistence_fallback"

\* repr(e)
Repr(e) == e \o "()"

\* a handler for the missing-artifact error only
CaughtOnlyFileNotFound(e) == e = "FileNotFoundError"

\* `except Exception` catches every exception class forecast_next_days raises
Caught(e) == TRUE

\* an except branch that hands the partial predictions back
ExceptResultPartial(partial, e) ==
    [forecasts |-> partial, method |-> FallbackMethod, error |-> Repr(e)]

\* the partial predictions are dropped in the except branch
ExceptResult(partial, e) == [forecasts |-> <<>>, method |-> FallbackMethod, error |-> Repr(e)]

\* line 80: a new list object
BtHistObject(arg) == "bt_hist"

\* lines 80-82
SeedHistory(vals) == IF ClampList(vals) = <<>> THEN <<0>> ELSE ClampList(vals)

\* walking forward on the model's own prediction
WalkFeedbackPred(pred, actual) == Max(0, pred)

\* line 96: the value appended to the walk-forward history after day i
WalkFeedback(pred, actual) == Max(0, actual)

\* lines 182-185: naive persistence over the window
RECURSIVE NaivePersistence(_, _)
NaivePersistence(prev, window) ==
    IF window = <<>> THEN <<>>
    ELSE <<Max(0, prev)>> \o NaivePersistence(Head(window), Tail(window))

\* persistence started from the oldest pre-window value
NaiveStartOldest(history_values) ==
    IF history_values # <<>> THEN history_values[1] ELSE 0

\* line 182
NaiveStart(history_values) ==
    IF history_values # <<>> THEN history_values[Len(history_values)] ELSE 0

InitBacktest ==
    /\ pc = "bt_call"
    /\ heap = EmptyHeap
    /\ models \in BacktestModelSets
    /\ start_date = [day |-> 0, hour |-> 0]
    /\ horizon_days = 0
    /\ history_in = <<>>
    /\ current = 0
    /\ out = <<>>
    /\ rows = <<>>
    /\ series \in SeriesSet
    /\ bt_start_date \in BtStartDays
    /\ backtest_days \in BacktestDaysSet
    /\ win = NoWindow
    /\ preds = <<>>
    /\ predicted = NoPrediction
    /\ model_forecasts = <<>>
    /\ report = NoReport
    /\ fc_calls = <<>>
    /\ walk_raised = None
    /\ LoaderIdle
    /\ ServeIdle

\* the metrics block of lines 152 and 166
ZeroReport == [n |-> 0, mape_pct |-> Null, wape_pct |-> Null, bias_pct |-> Null]

\* lines 145-179: normalise, compute the window, build the lists passed on
Prepare ==
    /\ pc = "bt_call"
    /\ LET daily == NormalizeDailySeries(series)
       IN  IF daily = <<>>
           THEN /\ report' = [returned |-> TRUE, window |-> [from |-> None, to |-> None,
                                         backtest_days |-> backtest_days],
                              metrics |-> ZeroReport, daily_errors |-> <<>>,
                              forecasts |-> <<>>]
                /\ pc' = "bt_returned"
                /\ UNCHANGED <<win, heap>>
           ELSE LET win_to == WinTo(daily, bt_start_date)
                    win_from == WinFrom(win_to, backtest_days)
                    idx == DateRange(win_from, win_to)
                IN  IF win_to < win_from
                    THEN /\ report' = [returned |-> TRUE, window |-> [from |-> win_from, to |-> win_to,
                                                  backtest_days |-> backtest_days],
                                       metrics |-> ZeroReport, daily_errors |-> <<>>,
                                       forecasts |-> <<>>]
                         /\ pc' = "bt_returned"
                         /\ UNCHANGED <<win, heap>>
                    ELSE /\ win' = [from |-> win_from, to |-> win_to, idx |-> idx,
                                    window |-> Reindex(daily, idx)]
                         /\ heap' = [heap EXCEPT
                                !["history_values"] = HistoryBefore(daily, idx[1]),
                                !["actual_window"] = Reindex(daily, idx)]
                         /\ pc' = "bt_predict"
                         /\ UNCHANGED report
    /\ UNCHANGED <<models, fvars, series, bt_start_date, backtest_days, preds, predicted,
                   model_forecasts, fc_calls, walk_raised>>
    /\ UNCHANGED lvars
    /\ UNCHANGED svars

\* lines 74-83
PredictEnter ==
    /\ pc = "bt_predict"
    /\ IF win.idx = <<>>
       THEN /\ predicted' = [forecasts |-> <<>>, method |-> XgbMethod, error |-> None]
            /\ pc' = "bt_predicted"
            /\ UNCHANGED heap
       ELSE IF Len(win.idx) # Len(heap["actual_window"])
       THEN /\ predicted' = [forecasts |-> <<>>, method |-> FallbackMethod,
                             error |-> "date_index and actual_window length mismatch"]
            /\ pc' = "bt_predicted"
            /\ UNCHANGED heap
       ELSE /\ heap' = [heap EXCEPT ![BtHistObject("history_values")] =
                            SeedHistory(heap["history_values"])]
            /\ pc' = "bt_walk"
            /\ UNCHANGED predicted
    /\ preds' = <<>>
    /\ UNCHANGED <<models, fvars, series, bt_start_date, backtest_days, win,
                   model_forecasts, report, fc_calls, walk_raised>>
    /\ UNCHANGED lvars
    /\ UNCHANGED svars

\* lines 84-96 and 98-99: one window day; the forecast_next_days call either
\* completes or ends with an exception
WalkDay ==
    /\ pc = "bt_walk"
    /\ Len(preds) < Len(win.idx)
    /\ LET i == Len(preds) + 1
           bt_hist == BtHistObject("history_values")
           sd == [day |-> win.idx[i], hour |-> 0]
           horizon == 1
       IN  /\ fc_calls' = Append(fc_calls, [history |-> heap[bt_hist], start_date |-> sd,
                                           horizon |-> horizon])
           /\ \E call \in {ForecastNextDays(heap, bt_hist, models, sd, horizon)},
                 e \in Exceptions \cup {None} :
                IF e # None \/ call.raised \/ call.out = <<>>
                THEN LET exc == IF e # None THEN e
                                ELSE IF call.raised THEN "IndexError" ELSE "ValueError"
                     IN  /\ walk_raised' = exc
                         /\ UNCHANGED <<heap, preds>>
                         /\ IF Caught(exc)
                            THEN /\ predicted' = ExceptResult(preds, exc)
                                 /\ pc' = "bt_predicted"
                            ELSE /\ pc' = "bt_raised"
                                 /\ UNCHANGED predicted
                ELSE /\ preds' = Append(preds, Max(0, call.out[1].forecast))
                     /\ heap' = [call.heap EXCEPT ![bt_hist] =
                                    Append(@, WalkFeedback(call.out[1].forecast,
                                                           heap["actual_window"][i]))]
                     /\ UNCHANGED <<pc, predicted, walk_raised>>
    /\ UNCHANGED <<models, fvars, series, bt_start_date, backtest_days, win,
                   model_forecasts, report>>
    /\ UNCHANGED lvars
    /\ UNCHANGED svars

\* line 97
PredictReturn ==
    /\ pc = "bt_walk"
    /\ Len(preds) >= Len(win.idx)
    /\ predicted' = [forecasts |-> preds, method |-> XgbMethod, error |-> None]
    /\ pc' = "bt_predicted"
    /\ UNCHANGED <<heap, models, fvars, series, bt_start_date, backtest_days, win, preds,
                   model_forecasts, report, fc_calls, walk_raised>>
    /\ UNCHANGED lvars
    /\ UNCHANGED svars

\* lines 174-185
FallbackIfEmpty ==
    /\ pc = "bt_predicted"
    /\ model_forecasts' =
            IF predicted.forecasts = <<>>
            THEN NaivePersistence(NaiveStart(heap["history_values"]), win.window)
            ELSE predicted.forecasts
    /\ pc' = "bt_score"
    /\ UNCHANGED <<heap, models, fvars, series, bt_start_date, backtest_days, win, preds,
                   predicted, report, fc_calls, walk_raised>>
    /\ UNCHANGED lvars
    /\ UNCHANGED svars

\* MIN_APE_DENOMINATOR = 1.0, in hundredths of a kilogram
MIN_APE_DENOMINATOR == 100

\* APE_FLOOR_FRACTION = 0.01: the hundredths of a kilogram per kilogram of median
APE_FLOOR_FRACTION == 1

\* the values the caller may pass as daily_errors_limit
DailyErrorsLimits == {-1, 0, 2, MaxScoreDays}

\* sorted(...) over numbers, ascending
RECURSIVE SortedAsc(_)
SortedAsc(s) ==
    IF s = <<>> THEN <<>>
    ELSE LET k == CHOOSE i \in 1..Len(s) : \A j \in 1..Len(s) : s[i] <= s[j]
         IN  <<s[k]>> \o SortedAsc(SubSeq(s, 1, k - 1) \o SubSeq(s, k + 1, Len(s)))

\* the floor taken from the lower median of the non-zero actuals
ApeFloorLowerMedian(actual_values) ==
    LET NonZero(v) == Abs(v) > 0
        sel == SelectSeq(actual_values, NonZero)
        nonzero == SortedAsc([k \in 1..Len(sel) |-> Abs(sel[k])])
    IN  IF nonzero = <<>>
        THEN MIN_APE_DENOMINATOR
        ELSE Max(MIN_APE_DENOMINATOR,
                 nonzero[((Len(nonzero) - 1) \div 2) + 1] * APE_FLOOR_FRACTION)

\* _ape_floor, in hundredths of a kilogram
ApeFloor(actual_values) ==
    LET NonZero(v) == Abs(v) > 0
        sel == SelectSeq(actual_values, NonZero)
        nonzero == SortedAsc([k \in 1..Len(sel) |-> Abs(sel[k])])
    IN  IF nonzero = <<>>
        THEN MIN_APE_DENOMINATOR
        ELSE Max(MIN_APE_DENOMINATOR, nonzero[(Len(nonzero) \div 2) + 1] * APE_FLOOR_FRACTION)

\* a quotient num / den kept exact as a fraction
Frac(num, den) == [n |-> num, d |-> den]

FracLess(x, y) == x.n * y.d < y.n * x.d

RECURSIVE GCD(_, _)
GCD(a, b) == IF b = 0 THEN a ELSE GCD(b, a % b)

\* the same quotient in lowest terms (den > 0)
Reduced(x) ==
    LET g == GCD(Abs(x.n), x.d)
    IN  IF g = 0 THEN x ELSE Frac(x.n \div g, x.d \div g)

\* sum(...) of a list of fractions
RECURSIVE FracSum(_)
FracSum(s) ==
    IF s = <<>> THEN Frac(0, 1)
    ELSE LET r == FracSum(Tail(s))
             h == Reduced(Head(s))
         IN  Reduced(Frac(h.n * r.d + r.n * h.d, h.d * r.d))

\* the first k decimal digits of r / den (0 <= r < den) and what is left over
RECURSIVE Decimals(_, _, _)
Decimals(r, den, k) ==
    IF k = 0 THEN [q |-> 0, r |-> r]
    ELSE LET rest == Decimals((10 * r) % den, den, k - 1)
         IN  [q |-> ((10 * r) \div den) * (10 ^ (k - 1)) + rest.q, r |-> rest.r]

\* round(100.0 * num / den, 2) for den > 0, in hundredths of a percent; ties go
\* to the even neighbour
RoundPct(num, den) ==
    LET dec == Decimals(num % den, den, 4)
        q == (num \div den) * 10000 + dec.q
    IN  IF 2 * dec.r < den THEN q
        ELSE IF 2 * dec.r > den THEN q + 1
        ELSE IF q % 2 = 0 THEN q ELSE q + 1

\* an actual equal to the floor treated as below it
ComputeApeInclusive(abs_error, actual, denominator_floor) ==
    IF 100 * Abs(actual) <= denominator_floor
    THEN Null
    ELSE Some(Frac(abs_error, Abs(actual)))

\* _compute_ape
ComputeApe(abs_error, actual, denominator_floor) ==
    IF 100 * Abs(actual) < denominator_floor
    THEN Null
    ELSE Some(Frac(abs_error, Abs(actual)))

\* lines 197-225: the DailyErrorPoint of one zipped window day, with its smape term
ErrorPoint(ts, value, fc, ape_floor) ==
    LET actual == value
        forecast == Max(0, fc)
        err == forecast - actual
        ae == Abs(err)
        smape_den == Abs(actual) + Abs(forecast)
    IN  [date |-> ts, actual |-> actual, forecast |-> forecast, error |-> err,
         abs_error |-> ae, ape |-> ComputeApe(ae, actual, ape_floor),
         smape |-> IF smape_den > 0 THEN Some(Frac(2 * ae, smape_den)) ELSE Null]

\* zip(idx, window.values, model_forecasts) run through the loop body
ErrorPoints(idx, window, forecasts) ==
    LET ape_floor == ApeFloor(window)
    IN  [k \in 1..Min(Len(idx), Min(Len(window), Len(forecasts))) |->
            ErrorPoint(idx[k], window[k], forecasts[k], ape_floor)]

\* what a DailyErrorPoint holds: ErrorPoint without the smape term
DailyErrorPoint(p) ==
    [date |-> p.date, actual |-> p.actual, forecast |-> p.forecast, error |-> p.error,
     abs_error |-> p.abs_error, ape |-> p.ape]

\* a score that ignores the ape
OutlierScoreAbsError(point) == Frac(point.abs_error, 1)

\* _outlier_score
OutlierScore(point) ==
    IF point.ape.defined THEN point.ape.value ELSE Frac(point.abs_error, 1)

\* a key without the abs_error component
KeyBeforeNoAbsError(p, q) ==
    \/ FracLess(OutlierScore(q), OutlierScore(p))
    \/ /\ ~FracLess(OutlierScore(p), OutlierScore(q))
       /\ p.date < q.date

\* the sort key (-_outlier_score(p), -float(p.abs_error), p.date) of lines 230-233
KeyBefore(p, q) ==
    \/ FracLess(OutlierScore(q), OutlierScore(p))
    \/ /\ ~FracLess(OutlierScore(p), OutlierScore(q))
       /\ \/ p.abs_error > q.abs_error
          \/ p.abs_error = q.abs_error /\ p.date < q.date

\* sorted(daily_errors, key=...): the dates are distinct, so the keys are
RECURSIVE SortedByKey(_)
SortedByKey(s) ==
    IF s = <<>> THEN <<>>
    ELSE LET k == CHOOSE i \in 1..Len(s) : \A j \in 1..Len(s) : j # i => KeyBefore(s[i], s[j])
         IN  <<s[k]>> \o SortedByKey(SubSeq(s, 1, k - 1) \o SubSeq(s, k + 1, Len(s)))

\* both list modes keeping the oldest days
TrimDailyErrorsOldest(daily_errors, include_daily_errors, daily_errors_limit, outliers_only) ==
    IF include_daily_errors
    THEN IF outliers_only
         THEN SubSeq(SortedByKey(daily_errors), 1,
                     Min(Len(daily_errors), Max(1, daily_errors_limit)))
         ELSE SubSeq(daily_errors, 1, Min(Len(daily_errors), Max(1, daily_errors_limit)))
    ELSE <<>>

\* lines 228-237
TrimDailyErrors(daily_errors, include_daily_errors, daily_errors_limit, outliers_only) ==
    IF include_daily_errors
    THEN IF outliers_only
         THEN SubSeq(SortedByKey(daily_errors), 1,
                     Min(Len(daily_errors), Max(1, daily_errors_limit)))
         ELSE LastN(daily_errors, Max(1, daily_errors_limit))
    ELSE <<>>

\* the terms of a list of optional values that are defined
DefinedTerms(s) ==
    LET IsDefined(x) == x.defined
        sel == SelectSeq(s, IsDefined)
    IN  [k \in 1..Len(sel) |-> sel[k].value]

\* mean of a non-empty list of fractions as a percentage, lines 240-241
MeanPct(terms) ==
    IF terms = <<>> THEN Null
    ELSE LET total == FracSum(terms)
         IN  Some(RoundPct(total.n, total.d * Len(terms)))

\* the ratio without the null rule: _safe_div alone, which gives 0.0 for a
\* zero denominator
RatioPctSafeDivOnly(num, sum_actual) ==
    IF sum_actual = 0 THEN Some(0)
    ELSE IF sum_actual > 0 THEN Some(RoundPct(num, sum_actual))
    ELSE Some(RoundPct(-num, -sum_actual))

\* 100.0 * _safe_div(num, sum_actual) if sum_actual != 0 else None, lines 242-243
RatioPct(num, sum_actual) ==
    IF sum_actual = 0 THEN Null
    ELSE IF sum_actual > 0 THEN Some(RoundPct(num, sum_actual))
    ELSE Some(RoundPct(-num, -sum_actual))

\* lines 239-260: the metrics block
Metrics(points, window, method, method_error) ==
    LET n == Len(window)
        IsZero(p) == p.actual = 0
        zero_actual_days == Len(SelectSeq(points, IsZero))
        sum_actual == SumSeq([k \in 1..Len(points) |-> points[k].actual])
    IN  [n |-> n,
         method |-> method,
         method_error |-> method_error,
         nonzero_actual_days |-> n - zero_actual_days,
         zero_actual_days |-> zero_actual_days,
         ape_denominator_floor |-> ApeFloor(window),
         mape_pct |-> MeanPct(DefinedTerms([k \in 1..Len(points) |-> points[k].ape])),
         smape_pct |-> MeanPct(DefinedTerms([k \in 1..Len(points) |-> points[k].smape])),
         wape_pct |-> RatioPct(SumSeq([k \in 1..Len(points) |-> points[k].abs_error]),
                               sum_actual),
         bias_pct |-> RatioPct(SumSeq([k \in 1..Len(points) |-> points[k].error]),
                               sum_actual)]

\* the forecasts scored, one per zipped window day (line 199)
ScoredForecasts(idx, window, forecasts) ==
    LET points == ErrorPoints(idx, window, forecasts)
    IN  [k \in 1..Len(points) |-> points[k].forecast]

\* sums and means taken over the days of the returned list only
AccumulatedFromListed(points, daily_errors) ==
    LET Listed(p) == \E i \in 1..Len(daily_errors) : daily_errors[i].date = p.date
    IN  SelectSeq(points, Listed)

\* lines 207-213: errors, abs_errors, sum_actual, abs_pct_errors and
\* smape_terms take a term in every iteration of the loop, whatever is listed
AccumulatedPoints(points, daily_errors) == points

\* lines 187-262: score the window and build the report
Score ==
    /\ pc = "bt_score"
    /\ \E include_daily_errors \in BOOLEAN, outliers_only \in BOOLEAN,
          daily_errors_limit \in DailyErrorsLimits :
          LET points == ErrorPoints(win.idx, win.window, model_forecasts)
              listed ==
                    TrimDailyErrors([k \in 1..Len(points) |-> DailyErrorPoint(points[k])],
                                    include_daily_errors, daily_errors_limit, outliers_only)
          IN  report' =
                [returned |-> TRUE,
                 window |-> [from |-> win.from, to |-> win.to,
                             backtest_days |-> backtest_days],
                 metrics |-> Metrics(AccumulatedPoints(points, listed), win.window,
                                     predicted.method, predicted.error),
                 daily_errors |-> listed,
                 forecasts |-> ScoredForecasts(win.idx, win.window, model_forecasts),
                 args |-> [include_daily_errors |-> include_daily_errors,
                           daily_errors_limit |-> daily_errors_limit,
                           outliers_only |-> outliers_only]]
    /\ pc' = "bt_returned"
    /\ UNCHANGED <<heap, models, fvars, series, bt_start_date, backtest_days, win, preds,
                   predicted, model_forecasts, fc_calls, walk_raised>>
    /\ UNCHANGED lvars
    /\ UNCHANGED svars

NextBacktest ==
    Prepare \/ PredictEnter \/ WalkDay \/ PredictReturn \/ FallbackIfEmpty \/ Score

SpecBacktest == InitBacktest /\ [][NextBacktest]_vars

\* both entry points
InitAll == Init \/ InitBacktest

NextAll ==
    \/ Enter \/ Step \/ StepRaise \/ Return
    \/ Prepare \/ PredictEnter \/ WalkDay \/ PredictReturn \/ FallbackIfEmpty \/ Score

SpecAll == InitAll /\ [][NextAll]_vars

----------------------------------------------------------------------------
(* The scoring stage on its own.  What _predict_model_backtest hands back   *)
(* depends on the trained boosters only through the predictions, so here    *)
(* the boosters are left open: the call returns any non-negative prediction *)
(* per window day, or takes its except branch.  The actuals reach beyond    *)
(* 100 kg, where the APE floor leaves its minimum.                          *)

ScoreSeriesVals == {0, 1, 2, 200}

\* one value per day from the first series day on: no day, one day (a window
\* that reaches back before the series), or MaxScoreDays days
ScoreSeriesSet ==
    UNION {[FirstSeriesDay..(FirstSeriesDay + n - 1) -> ScoreSeriesVals] :
             n \in {0, 1, MaxScoreDays}}

\* a start date after the last series day, so the window ends on that day
ScoreStartDay == FirstSeriesDay + MaxScoreDays + 1

ScoreBacktestDaysSet == {0, 2, MaxScoreDays}

ScoreForecastVals == {0, 2, 4}

InitScore ==
    /\ pc = "bt_call"
    /\ heap = EmptyHeap
    /\ models = CHOOSE M \in BacktestModelSets : TRUE
    /\ start_date = [day |-> 0, hour |-> 0]
    /\ horizon_days = 0
    /\ history_in = <<>>
    /\ current = 0
    /\ out = <<>>
    /\ rows = <<>>
    /\ series \in ScoreSeriesSet
    /\ bt_start_date = ScoreStartDay
    /\ backtest_days \in ScoreBacktestDaysSet
    /\ win = NoWindow
    /\ preds = <<>>
    /\ predicted = NoPrediction
    /\ model_forecasts = <<>>
    /\ report = NoReport
    /\ fc_calls = <<>>
    /\ walk_raised = None
    /\ LoaderIdle
    /\ ServeIdle

\* lines 68-99 with the boosters left open: the guards of lines 74-77, then
\* either every window day gets a prediction max(0.0, y50) (line 97) or an
\* exception ends the walk in the except branch (lines 98-99)
PredictAny ==
    /\ pc = "bt_predict"
    /\ IF win.idx = <<>>
       THEN /\ predicted' = [forecasts |-> <<>>, method |-> XgbMethod, error |-> None]
            /\ UNCHANGED <<preds, walk_raised>>
       ELSE IF Len(win.idx) # Len(heap["actual_window"])
       THEN /\ predicted' = [forecasts |-> <<>>, method |-> FallbackMethod,
                             error |-> "date_index and actual_window length mismatch"]
            /\ UNCHANGED <<preds, walk_raised>>
       ELSE \/ \E ys \in [1..Len(win.idx) -> ScoreForecastVals] :
                 /\ preds' = [k \in 1..Len(win.idx) |-> Max(0, ys[k])]
                 /\ predicted' = [forecasts |-> preds', method |-> XgbMethod,
                                  error |-> None]
                 /\ UNCHANGED walk_raised
            \/ \E e \in Exceptions :
                 /\ Caught(e)
                 /\ walk_raised' = e
                 /\ predicted' = ExceptResult(preds, e)
                 /\ UNCHANGED preds
    /\ pc' = "bt_predicted"
    /\ UNCHANGED <<heap, models, fvars, series, bt_start_date, backtest_days, win,
                   model_forecasts, report, fc_calls>>
    /\ UNCHANGED lvars
    /\ UNCHANGED svars

NextScore == Prepare \/ PredictAny \/ FallbackIfEmpty \/ Score

SpecScore == InitScore /\ [][NextScore]_vars

----------------------------------------------------------------------------
(* The loaders as a state machine: callers on threads, and the training     *)
(* pipeline writing artifacts.                                              *)

InitLoad ==
    /\ pc = "loader"
    /\ heap = EmptyHeap
    /\ models = CHOOSE M \in BacktestModelSets : TRUE
    /\ start_date = [day |-> 0, hour |-> 0]
    /\ horizon_days = 0
    /\ history_in = <<>>
    /\ current = 0
    /\ out = <<>>
    /\ rows = <<>>
    /\ BtIdle
    /\ artifacts \in SUBSET ValidCalls
    /\ lru = [fn \in LoaderFns |-> <<>>]
    /\ storage_reads = [c \in LoaderCalls |-> 0]
    /\ served = [c \in LoaderCalls |-> <<>>]
    /\ th = [t \in Threads |-> IdleThread]
    /\ ncalls = 0
    /\ ServeIdle

\* the lru_cache wrapper on entry: a hit returns the cached object, a miss
\* goes on to call the function
Lookup(t, c) ==
    /\ pc = "loader"
    /\ th[t].pc = "idle"
    /\ ncalls < MaxCalls
    /\ ncalls' = ncalls + 1
    /\ IF c \in CacheKeys(lru[c.fn])
       THEN /\ lru' = [lru EXCEPT ![c.fn] = CacheTouch(@, c)]
            /\ served' = [served EXCEPT ![c] = Append(@, Returned(CacheGet(lru[c.fn], c)))]
            /\ UNCHANGED th
       ELSE /\ th' = [th EXCEPT ![t] = [pc |-> "miss", call |-> c, obj |-> 0]]
            /\ UNCHANGED <<lru, served>>
    /\ UNCHANGED <<artifacts, storage_reads>>
    /\ UNCHANGED <<pc, heap, models, fvars, bvars, svars>>

\* a call that starts only when no other call is in flight
LookupSeq(t, c) ==
    /\ \A u \in Threads : th[u].pc = "idle"
    /\ Lookup(t, c)

\* lines 44-49 and 57-59: the path of the artifact and the existence check
Open(t) ==
    /\ th[t].pc = "miss"
    /\ LET c == th[t].call
       IN  IF ~HasFileEntry(c)
           THEN /\ served' = [served EXCEPT ![c] = Append(@, Raised("KeyError"))]
                /\ th' = [th EXCEPT ![t] = IdleThread]
           ELSE IF c \notin artifacts
           THEN /\ served' = [served EXCEPT ![c] = Append(@, Raised("FileNotFoundError"))]
                /\ th' = [th EXCEPT ![t] = IdleThread]
           ELSE /\ th' = [th EXCEPT ![t].pc = "open"]
                /\ UNCHANGED served
    /\ UNCHANGED <<artifacts, lru, storage_reads, ncalls>>
    /\ UNCHANGED <<pc, heap, models, fvars, bvars, svars>>

\* lines 50-52 and 60: the artifact is read into a new object
Read(t) ==
    /\ th[t].pc = "open"
    /\ storage_reads' = [storage_reads EXCEPT ![th[t].call] = @ + 1]
    /\ th' = [th EXCEPT ![t].pc = "loaded", ![t].obj = storage_reads'[th[t].call]]
    /\ UNCHANGED <<artifacts, lru, served, ncalls>>
    /\ UNCHANGED <<pc, heap, models, fvars, bvars, svars>>

\* the lru_cache wrapper after the function returned: the result is stored
\* unless another thread stored the key meanwhile, and handed to the caller
Store(t) ==
    /\ th[t].pc = "loaded"
    /\ LET c == th[t].call
       IN  /\ lru' = IF c \in CacheKeys(lru[c.fn])
                     THEN lru
                     ELSE [lru EXCEPT ![c.fn] = CachePut(@, c, th[t].obj, MaxSize(c.fn))]
           /\ served' = [served EXCEPT ![c] = Append(@, Returned(th[t].obj))]
    /\ th' = [th EXCEPT ![t] = IdleThread]
    /\ UNCHANGED <<artifacts, storage_reads, ncalls>>
    /\ UNCHANGED <<pc, heap, models, fvars, bvars, svars>>

\* xgb_pipeline.train_and_save_all writes an artifact that was missing
Publish(c) ==
    /\ pc = "loader"
    /\ c \in ValidCalls \ artifacts
    /\ artifacts' = artifacts \cup {c}
    /\ UNCHANGED <<lru, storage_reads, served, th, ncalls>>
    /\ UNCHANGED <<pc, heap, models, fvars, bvars, svars>>

\* calls one after the other
NextLoadSeq ==
    \/ \E t \in Threads, c \in LoaderCalls : LookupSeq(t, c)
    \/ \E t \in Threads : Open(t)
    \/ \E t \in Threads : Read(t)
    \/ \E t \in Threads : Store(t)
    \/ \E c \in LoaderCalls : Publish(c)

SpecLoadSeq == InitLoad /\ [][NextLoadSeq]_vars

\* calls of concurrent requests
NextLoad ==
    \/ \E t \in Threads, c \in LoaderCalls : Lookup(t, c)
    \/ \E t \in Threads : Open(t)
    \/ \E t \in Threads : Read(t)
    \/ \E t \in Threads : Store(t)
    \/ \E c \in LoaderCalls : Publish(c)

SpecLoad == InitLoad /\ [][NextLoad]_vars

----------------------------------------------------------------------------
(* The process serving requests.  forecast_next_days first loads the three  *)
(* boosters and the feature list through the caches (lines 144-147) and     *)
(* then runs its loop; it is called by the forecast endpoint and, one       *)
(* window day at a time, by the backtest.  A call is taken as one step: it  *)
(* shares nothing with other calls but the loader caches.  `models` is what *)
(* training has written into the artifacts.                                 *)

MaxRequests == 2

ServeModelKey == "export"

\* lines 144-147, in this order
ModelCalls(model_key) ==
    <<[fn |-> "load_model", model_key |-> model_key, q |-> "p50"],
      [fn |-> "load_model", model_key |-> model_key, q |-> "p05"],
      [fn |-> "load_model", model_key |-> model_key, q |-> "p95"],
      [fn |-> "load_feature_list", model_key |-> model_key, q |-> NoQuantile]>>

ServeArtifacts == {ModelCalls(ServeModelKey)[i] : i \in 1..Len(ModelCalls(ServeModelKey))}

\* the state of the loaders
LoaderState == [lru |-> lru, reads |-> storage_reads, served |-> served, error |-> None]

\* a loader that hands back an empty object for a missing artifact
LoadCallLenient(L, files, c) ==
    IF c \in CacheKeys(L.lru[c.fn])
    THEN [L EXCEPT !.lru[c.fn] = CacheTouch(@, c),
                   !.served[c] = Append(@, Returned(CacheGet(L.lru[c.fn], c)))]
    ELSE [L EXCEPT !.reads[c] = @ + 1,
                   !.lru[c.fn] = CachePut(@, c, L.reads[c] + 1, MaxSize(c.fn)),
                   !.served[c] = Append(@, Returned(L.reads[c] + 1))]

\* lines 42-52 and 55-60 with the lru_cache wrapper, run without another
\* thread in between: Lookup, then Open, Read and Store on a miss
LoadCall(L, files, c) ==
    IF c \in CacheKeys(L.lru[c.fn])
    THEN [L EXCEPT !.lru[c.fn] = CacheTouch(@, c),
                   !.served[c] = Append(@, Returned(CacheGet(L.lru[c.fn], c)))]
    ELSE IF ~HasFileEntry(c)
    THEN [L EXCEPT !.served[c] = Append(@, Raised("KeyError")), !.error = "KeyError"]
    ELSE IF c \notin files
    THEN [L EXCEPT !.served[c] = Append(@, Raised("FileNotFoundError")),
                   !.error = "FileNotFoundError"]
    ELSE [L EXCEPT !.reads[c] = @ + 1,
                   !.lru[c.fn] = CachePut(@, c, L.reads[c] + 1, MaxSize(c.fn)),
                   !.served[c] = Append(@, Returned(L.reads[c] + 1))]

\* the loader calls of lines 144-147 one after the other; the first exception
\* ends them
RECURSIVE LoadAll(_, _, _)
LoadAll(L, files, calls) ==
    IF calls = <<>> THEN L
    ELSE LET L1 == LoadCall(L, files, Head(calls))
         IN  IF L1.error # None THEN L1 ELSE LoadAll(L1, files, Tail(calls))

\* lines 144-189: the loads, then the loop on the heap
ServedCall(h, arg, sd, horizon) ==
    LET L == LoadAll(LoaderState, artifacts, ModelCalls(ServeModelKey))
    IN  IF L.error # None
        THEN [loader |-> L, heap |-> h, error |-> L.error, out |-> <<>>]
        ELSE LET call == ForecastNextDays(h, arg, models, sd, horizon)
             IN  [loader |-> L, heap |-> call.heap,
                  error |-> IF call.raised THEN "IndexError" ELSE None,
                  out |-> call.out]

RequestEntry(path, hist, sd, horizon, call) ==
    [path |-> path, history |-> hist, start_date |-> sd, horizon |-> horizon,
     error |-> call.error, out |-> call.out]

DirectRequests == {i \in 1..Len(requests) : requests[i].path = "direct"}

\* the direct requests: history, start date and horizon
ServeRequests ==
    {[history |-> <<3>>, start_date |-> [day |-> 30, hour |-> 0], horizon |-> 1],
     [history |-> <<0, 3>>, start_date |-> [day |-> 30, hour |-> 0], horizon |-> 2]}

\* the series and backtest_days of the backtest request
ServeSeriesSet == {[d \in FirstSeriesDay..(FirstSeriesDay + 1) |-> 3 * (d - FirstSeriesDay)]}
ServeBacktestDays == {1, 2}

InitServe ==
    /\ pc = "bt_call"
    /\ heap = EmptyHeap
    /\ models = CHOOSE M \in BacktestModelSets : M.b50 = 1
    /\ start_date = [day |-> 0, hour |-> 0]
    /\ horizon_days = 0
    /\ history_in = <<>>
    /\ current = 0
    /\ out = <<>>
    /\ rows = <<>>
    /\ series \in ServeSeriesSet
    /\ bt_start_date = FirstSeriesDay + 2
    /\ backtest_days \in ServeBacktestDays
    /\ win = NoWindow
    /\ preds = <<>>
    /\ predicted = NoPrediction
    /\ model_forecasts = <<>>
    /\ report = NoReport
    /\ fc_calls = <<>>
    /\ walk_raised = None
    /\ artifacts \in SUBSET ServeArtifacts
    /\ lru = [fn \in LoaderFns |-> <<>>]
    /\ storage_reads = [c \in LoaderCalls |-> 0]
    /\ served = [c \in LoaderCalls |-> <<>>]
    /\ th = [t \in Threads |-> IdleThread]
    /\ ncalls = 0
    /\ requests = <<>>
    /\ px = NoPredictCall
    /\ RunsIdle

\* forecast.py line 122: the endpoint calls forecast_next_days with its own
\* history list
ServeForecast ==
    /\ Cardinality(DirectRequests) < MaxRequests
    /\ \E r \in ServeRequests :
         \E call \in {ServedCall([heap EXCEPT !["history_daily_y"] = r.history],
                                 "history_daily_y", r.start_date, r.horizon)} :
            /\ requests' = Append(requests, RequestEntry("direct", r.history, r.start_date,
                                                         r.horizon, call))
            /\ heap' = call.heap
            /\ lru' = call.loader.lru
            /\ storage_reads' = call.loader.reads
            /\ served' = call.loader.served
    /\ UNCHANGED <<artifacts, th, ncalls, px, rvars>>
    /\ UNCHANGED <<pc, models, fvars, bvars>>

\* metrics.py lines 84-96 and 98-99: one window day of the backtest, its
\* forecast_next_days call going through the loaders
WalkDayServed ==
    /\ pc = "bt_walk"
    /\ Len(preds) < Len(win.idx)
    /\ LET i == Len(preds) + 1
           bt_hist == BtHistObject("history_values")
           sd == [day |-> win.idx[i], hour |-> 0]
           horizon == 1
       IN  /\ fc_calls' = Append(fc_calls, [history |-> heap[bt_hist], start_date |-> sd,
                                           horizon |-> horizon])
           /\ \E call \in {ServedCall(heap, bt_hist, sd, horizon)} :
                /\ requests' = Append(requests,
                                      RequestEntry("backtest", heap[bt_hist], sd, horizon, call))
                /\ lru' = call.loader.lru
                /\ storage_reads' = call.loader.reads
                /\ served' = call.loader.served
                /\ IF call.error # None \/ call.out = <<>>
                   THEN LET exc == IF call.error # None THEN call.error ELSE "ValueError"
                        IN  /\ walk_raised' = exc
                            /\ UNCHANGED <<heap, preds>>
                            /\ IF Caught(exc)
                               THEN /\ predicted' = ExceptResult(preds, exc)
                                    /\ pc' = "bt_predicted"
                               ELSE /\ pc' = "bt_raised"
                                    /\ UNCHANGED predicted
                   ELSE /\ preds' = Append(preds, Max(0, call.out[1].forecast))
                        /\ heap' = [call.heap EXCEPT ![bt_hist] =
                                       Append(@, WalkFeedback(call.out[1].forecast,
                                                              heap["actual_window"][i]))]
                        /\ UNCHANGED <<pc, predicted, walk_raised>>
    /\ UNCHANGED <<models, fvars, series, bt_start_date, backtest_days, win,
                   model_forecasts, report>>
    /\ UNCHANGED <<artifacts, th, ncalls, px, rvars>>

\* xgb_pipeline.train_and_save_all writes an artifact that was missing while
\* the process serves
PublishServed(c) ==
    /\ c \in ServeArtifacts \ artifacts
    /\ artifacts' = artifacts \cup {c}
    /\ UNCHANGED <<lru, storage_reads, served, th, ncalls>>
    /\ UNCHANGED <<pc, heap, models, fvars, bvars, svars>>

NextServe ==
    \/ ServeForecast
    \/ Prepare \/ PredictEnter \/ WalkDayServed \/ PredictReturn \/ FallbackIfEmpty \/ Score
    \/ \E c \in ServeArtifacts : PublishServed(c)

SpecServe == InitServe /\ [][NextServe]_vars

----------------------------------------------------------------------------
(* _compute_next_row_features on its own, on histories long enough for the  *)
(* widest lag and rolling window (28 days).                                 *)

MaxFeatLen == 30

\* the history values cycle through -1..3 with step a from offset b
PatternValue(a, b, i) == ((a * i + b) % 5) - 1

FeatureHistories ==
    {[i \in 1..n |-> PatternValue(a, b, i)] : n \in 0..MaxFeatLen, a \in 0..2, b \in 0..4}

FeatureDates == {30 * HoursPerDay, 34 * HoursPerDay}

InitFeatures ==
    /\ pc = "feat_call"
    /\ history_in \in FeatureHistories
    /\ heap = [EmptyHeap EXCEPT !["history_daily_y"] = history_in]
    /\ current \in FeatureDates
    /\ models \in {M \in ModelSets : M.b50 = 0 /\ M.b05 = 0 /\ M.b95 = 0}
    /\ start_date = [day |-> 0, hour |-> 0]
    /\ horizon_days = 0
    /\ out = <<>>
    /\ rows = <<>>
    /\ BtIdle
    /\ LoaderIdle
    /\ ServeIdle

\* lines 63-106 returning the row
ComputeFeatures ==
    /\ pc = "feat_call"
    /\ ~FeaturesRaise(heap["history_daily_y"])
    /\ rows' = <<FeatureRow(heap["history_daily_y"], current, models.feature_cols)>>
    /\ pc' = "feat_returned"
    /\ UNCHANGED <<heap, models, start_date, horizon_days, history_in, current, out>>
    /\ UNCHANGED <<bvars, lvars, svars>>

\* line 73 raising IndexError on an empty history
ComputeFeaturesRaise ==
    /\ pc = "feat_call"
    /\ FeaturesRaise(heap["history_daily_y"])
    /\ pc' = "feat_raised"
    /\ UNCHANGED <<heap, models, fvars, bvars, lvars, svars>>

NextFeatures == ComputeFeatures \/ ComputeFeaturesRaise

SpecFeatures == InitFeatures /\ [][NextFeatures]_vars

----------------------------------------------------------------------------
(* predict_xgb: one feature vector or a batch of rows against the p50       *)
(* booster.                                                                 *)

MaxRowLen == 5

MaxBatch == 2

\* the rows callers pass: up to one value more than the short feature list,
\* and one value less, as many, and one more than the full feature list
PxRowLens == 0..MaxRowLen \cup {Len(AllFeatures) - 1, Len(AllFeatures), Len(AllFeatures) + 1}

PxRows == {[i \in 1..n |-> ((a * i) % 3) * 69] : n \in PxRowLens, a \in 1..2}

\* a flat vector (the empty list included) or a list of rows
PxFeatures ==
    {[kind |-> "vector", rows |-> <<r>>] : r \in PxRows}
        \cup {[kind |-> "batch", rows |-> b] : b \in UNION {[1..k -> PxRows] : k \in 1..MaxBatch}}

\* lines 113-114, in this order
PredictCalls(model_key) ==
    <<[fn |-> "load_model", model_key |-> model_key, q |-> "p50"],
      [fn |-> "load_feature_list", model_key |-> model_key, q |-> NoQuantile]>>

\* lines 116-118: np.asarray(features, dtype=float) and the reshape of a flat
\* vector to one row; a ragged batch is a ValueError of np.asarray
AsMatrix(features) ==
    IF \E i \in 1..Len(features.rows) : Len(features.rows[i]) # Len(features.rows[1])
    THEN [error |-> "ValueError", X |-> <<>>]
    ELSE [error |-> None, X |-> features.rows]

\* a predictor that never rejects a row for its length
ShapeMismatchIgnored(X, feature_cols) == FALSE

\* line 120: X.shape[1] != len(feature_cols)
ShapeMismatch(X, feature_cols) == Len(X[1]) # Len(feature_cols)

\* lines 125-129: predict, expm1, clip, one value per row
PredictRows(b, X) == [i \in 1..Len(X) |-> Max(0, Expm1(BoosterPredict(b, X[i])))]

\* lines 113-129
PredictXgb(features) ==
    LET L == LoadAll(LoaderState, artifacts, PredictCalls(ServeModelKey))
        M == AsMatrix(features)
    IN  IF L.error # None
        THEN [loader |-> L, error |-> L.error, preds |-> <<>>]
        ELSE IF M.error # None
        THEN [loader |-> L, error |-> M.error, preds |-> <<>>]
        ELSE IF ShapeMismatch(M.X, models.feature_cols)
        THEN [loader |-> L, error |-> "ValueError", preds |-> <<>>]
        ELSE [loader |-> L, error |-> None, preds |-> PredictRows(models.b50, M.X)]

InitPredict ==
    /\ pc = "px_call"
    /\ heap = EmptyHeap
    /\ models \in {M \in ModelSets : M.b05 = 0 /\ M.b95 = 0}
    /\ start_date = [day |-> 0, hour |-> 0]
    /\ horizon_days = 0
    /\ history_in = <<>>
    /\ current = 0
    /\ out = <<>>
    /\ rows = <<>>
    /\ BtIdle
    /\ artifacts \in {ServeArtifacts, ServeArtifacts \ {PredictCalls(ServeModelKey)[1]}}
    /\ lru = [fn \in LoaderFns |-> <<>>]
    /\ storage_reads = [c \in LoaderCalls |-> 0]
    /\ served = [c \in LoaderCalls |-> <<>>]
    /\ th = [t \in Threads |-> IdleThread]
    /\ ncalls = 0
    /\ requests = <<>>
    /\ RunsIdle
    /\ px \in {[features |-> f, error |-> None, preds |-> <<>>] : f \in PxFeatures}

\* predict_xgb run to its return or to the exception it raises
PredictCall ==
    /\ pc = "px_call"
    /\ \E call \in {PredictXgb(px.features)} :
          /\ px' = [px EXCEPT !.error = call.error, !.preds = call.preds]
          /\ pc' = IF call.error = None THEN "px_returned" ELSE "px_raised"
          /\ lru' = call.loader.lru
          /\ storage_reads' = call.loader.reads
          /\ served' = call.loader.served
    /\ UNCHANGED <<artifacts, th, ncalls, requests, rvars>>
    /\ UNCHANGED <<heap, models, fvars, bvars>>

NextPredict == PredictCall

SpecPredict == InitPredict /\ [][NextPredict]_vars

----------------------------------------------------------------------------
(* Properties of forecast_next_days (specification Spec) *)

\* the raw (unclamped, original-scale) outputs of the three boosters at step k
Raw50(k) == Expm1(BoosterPredict(models.b50, rows[k]))

Raw05(k) == Expm1(BoosterPredict(models.b05, rows[k]))

Raw95(k) == Expm1(BoosterPredict(models.b95, rows[k]))

\* the forecast values of a sequence of points
ForecastValues(points) == [k \in 1..Len(points) |-> points[k].forecast]

\* the timestamp of step k (1-based)
StepTime(k) == Normalize(ToDatetime(start_date)) + (k - 1) * HoursPerDay

\* C1: every emitted point satisfies 0 <= p05 <= forecast <= p95, whatever the
\* three boosters put out and at every step of the horizon.
C1_BandOrdered ==
    \A k \in 1..Len(out) :
        /\ 0 <= out[k].p05
        /\ out[k].p05 <= out[k].forecast
        /\ out[k].forecast <= out[k].p95

\* a second step whose raw p05 lies above the raw median and whose raw p95 is
\* negative and below it, after a first step with a negative raw median
C1_Witness ==
    /\ Len(out) = 2
    /\ Raw50(1) < 0
    /\ Raw05(2) > Raw50(2)
    /\ Raw95(2) < Raw50(2)
    /\ Raw95(2) < 0

\* C2: the call returns exactly horizon_days points (none when horizon_days
\* <= 0) and point i (0-based) carries the date start_date + i days.
C2_LengthAndDates ==
    pc \in {"returned", "raised"} =>
        /\ pc = "returned"
        /\ Len(out) = Max(0, horizon_days)
        /\ \A k \in 1..Len(out) : out[k].date = start_date.day + (k - 1)

\* C3: the working history grows by one value per step, the value being the
\* emitted forecast; the features of step k are those of the caller's clamped
\* history followed by the forecasts of the earlier steps.
C3_MedianFeedback ==
    pc # "call" =>
        /\ heap["hist"] = ClampList(history_in) \o ForecastValues(out)
        /\ Len(rows) = Len(out)
        /\ \A k \in 1..Len(out) :
              rows[k] = FeatureRow(ClampList(history_in) \o SubSeq(ForecastValues(out), 1, k - 1),
                                   StepTime(k), models.feature_cols)

\* two steps done, the first with both bands away from the median
C3_Witness ==
    /\ pc = "returned"
    /\ Len(out) = 2
    /\ out[1].p05 < out[1].forecast
    /\ out[1].forecast < out[1].p95

\* the same call made with other p05 and p95 boosters
TwinRun(b05, b95, horizon) ==
    ForecastNextDays([EmptyHeap EXCEPT !["history_daily_y"] = history_in],
                     "history_daily_y",
                     [models EXCEPT !.b05 = b05, !.b95 = b95],
                     start_date, horizon)

\* the band booster of the reference run
ReferenceBand == CHOOSE b \in BoosterIds : \A c \in BoosterIds : b <= c

\* C4: the forecast values do not depend on the p05 and p95 boosters: the same
\* call with another pair of band models yields the same forecast at every
\* step, and the forecast is the clamped raw median.  Every run is compared
\* with the run that has the reference booster for both bands; the runs cover
\* every pair of band models, so all of them agree with one another.
C4_MedianIndependentOfBands ==
    /\ pc = "returned" =>
            ForecastValues(TwinRun(ReferenceBand, ReferenceBand, horizon_days).out)
                = ForecastValues(out)
    /\ \A k \in 1..Len(out) : out[k].forecast = Max(0, Raw50(k))

\* two steps done; in the first the raw p05 is above the raw median, so the
\* band had to be clamped
C4_Witness ==
    /\ pc = "returned"
    /\ Len(out) = 2
    /\ Raw05(1) > Raw50(1)
    /\ Raw50(1) > 0
    /\ Raw95(2) < Raw50(2)

\* C6: with an empty history and horizon_days >= 1 the call behaves as if the
\* history were the single value 0.0: it returns horizon_days points.
C6_EmptyHistorySeeded ==
    (history_in = <<>> /\ horizon_days >= 1 /\ pc \in {"returned", "raised"}) =>
        /\ pc = "returned"
        /\ Len(out) = horizon_days
        /\ out = ForecastNextDays([EmptyHeap EXCEPT !["history_daily_y"] = <<0>>],
                                  "history_daily_y", models, start_date, horizon_days).out

----------------------------------------------------------------------------
(* Properties of both entry points (specification SpecAll) *)

\* C5: the list objects handed in by the caller are never changed: the
\* history of forecast_next_days, and the history and actual lists of
\* _predict_model_backtest, keep their contents in every step.
C5_CallerListsUntouched ==
    [][/\ heap'["history_daily_y"] = heap["history_daily_y"]
       /\ pc # "bt_call" =>
            /\ heap'["history_values"] = heap["history_values"]
            /\ heap'["actual_window"] = heap["actual_window"]]_vars

\* a forecast call that returned two points for a history holding a negative
\* value, so that the working list differs from the caller's in every element
C5_Witness ==
    /\ pc = "returned"
    /\ Len(out) = 2
    /\ history_in = <<-1>>
    /\ heap["history_daily_y"] = <<-1>>
    /\ Len(heap["hist"]) = 3

----------------------------------------------------------------------------
(* Properties of the backtest (specification SpecBacktest) *)

\* the actual of a calendar day, read off the series argument
Actual(d) == IF d \in DOMAIN series THEN Max(0, series[d]) ELSE 0

\* the days of the series strictly before the window
PriorDays == {d \in DOMAIN series : d < win.from}

\* the actuals strictly before the window, oldest first
PreWindowHistory ==
    LET days == SortedSeq(PriorDays)
    IN  [k \in 1..Len(days) |-> Actual(days[k])]

\* the actuals of the first i window days
WindowActuals(i) == [k \in 1..i |-> Actual(win.from + (k - 1))]

WindowLength == win.to - win.from + 1

\* the first forecast of a one-day forecast_next_days call on history h
OneDayForecast(h, day) ==
    ForecastNextDays([EmptyHeap EXCEPT !["history_daily_y"] = h], "history_daily_y",
                     models, [day |-> day, hour |-> 0], 1).out[1].forecast

\* naive persistence as the claim states it
NaiveExpected ==
    [i \in 1..WindowLength |->
        IF i = 1
        THEN (IF PriorDays = {} THEN 0 ELSE Actual(SetMax(PriorDays)))
        ELSE Actual(win.from + (i - 2))]

ReportHasMethod == pc = "bt_returned" /\ "method" \in DOMAIN report.metrics

\* C7 as stated: the forecast of window day i is a one-day forecast on the
\* pre-window history followed by the actuals of the window days before i.
C7_WalkForwardOnPreWindowHistory ==
    /\ \A i \in 1..Len(fc_calls) :
          /\ fc_calls[i].horizon = 1
          /\ fc_calls[i].start_date.day = win.from + (i - 1)
          /\ fc_calls[i].history = PreWindowHistory \o WindowActuals(i - 1)
    /\ (ReportHasMethod /\ report.metrics.method = XgbMethod) =>
          \A i \in 1..Len(report.forecasts) :
              /\ PreWindowHistory \o WindowActuals(i - 1) # <<>>
              /\ report.forecasts[i] =
                    Max(0, OneDayForecast(PreWindowHistory \o WindowActuals(i - 1),
                                          win.from + (i - 1)))

\* the history the walk-forward starts from
SeededPreWindowHistory == IF PreWindowHistory = <<>> THEN <<0>> ELSE PreWindowHistory

\* C7 (amended): the forecast of window day i is a one-day forecast on the
\* pre-window history, or on the single value 0.0 when there is none, followed
\* by the actuals of the window days before i; no forecast enters a history.
C7_WalkForwardOnSeededHistory ==
    /\ \A i \in 1..Len(fc_calls) :
          /\ fc_calls[i].horizon = 1
          /\ fc_calls[i].start_date.day = win.from + (i - 1)
          /\ fc_calls[i].history = SeededPreWindowHistory \o WindowActuals(i - 1)
    /\ (ReportHasMethod /\ report.metrics.method = XgbMethod) =>
          \A i \in 1..Len(report.forecasts) :
              report.forecasts[i] =
                  Max(0, OneDayForecast(SeededPreWindowHistory \o WindowActuals(i - 1),
                                        win.from + (i - 1)))

\* a two-day window scored by the model whose first forecast differs from the
\* first actual, with earlier actuals in the series
C7_Witness ==
    /\ ReportHasMethod
    /\ report.metrics.method = XgbMethod
    /\ Len(report.forecasts) = 2
    /\ PreWindowHistory # <<>>
    /\ report.forecasts[1] # Actual(win.from)

\* C8: a report never mixes methods: once the model path raised on a day, all
\* n forecasts are naive persistence; when it raised on no day, all n are the
\* model's predictions.
C8_NoMixedMethods ==
    ReportHasMethod =>
        /\ report.metrics.n = WindowLength
        /\ Len(report.forecasts) = WindowLength
        /\ walk_raised # None =>
              \A i \in 1..WindowLength : report.forecasts[i] = NaiveExpected[i]
        /\ walk_raised = None =>
              /\ Len(preds) = WindowLength
              /\ \A i \in 1..WindowLength : report.forecasts[i] = preds[i]

\* the model path raised on the second day after predicting the first, and
\* the first prediction differs from the naive value of that day
C8_Witness ==
    /\ ReportHasMethod
    /\ walk_raised # None
    /\ WindowLength = 2
    /\ Len(preds) = 1
    /\ preds[1] # NaiveExpected[1]

\* C9: the backtest never raises because the model path failed; a failure
\* yields the fallback method with the captured error text, method_error is
\* set exactly for the fallback, and the method named produced the forecasts.
C9_FailureIsReported ==
    /\ pc # "bt_raised"
    /\ ReportHasMethod =>
        /\ report.metrics.method \in {XgbMethod, FallbackMethod}
        /\ walk_raised # None =>
              /\ report.metrics.method = FallbackMethod
              /\ report.metrics.method_error = Repr(walk_raised)
        /\ (report.metrics.method_error # None) <=> (report.metrics.method = FallbackMethod)
        /\ report.metrics.method = XgbMethod =>
              /\ walk_raised = None
              /\ report.forecasts = preds
        /\ report.metrics.method = FallbackMethod => report.forecasts = NaiveExpected

\* a report returned after an xgboost failure on the second window day
C9_Witness ==
    /\ ReportHasMethod
    /\ walk_raised = "XGBoostError"
    /\ Len(preds) = 1
    /\ report.metrics.method_error = "XGBoostError()"

\* C10: in the fallback the first window day is forecast as the last actual
\* strictly before the window (0 when there is none) and every later day as the
\* actual of the window day before it, each floored at 0.
C10_NaivePersistence ==
    (ReportHasMethod /\ report.metrics.method = FallbackMethod) =>
        /\ Len(report.forecasts) = WindowLength
        /\ report.forecasts[1] =
              IF PriorDays = {} THEN 0 ELSE Max(0, Actual(SetMax(PriorDays)))
        /\ \A i \in 2..WindowLength :
              report.forecasts[i] = Max(0, Actual(win.from + (i - 2)))

\* a fallback report over two days, with a positive actual before the window
\* and a positive first window actual
C10_Witness ==
    /\ ReportHasMethod
    /\ report.metrics.method = FallbackMethod
    /\ WindowLength = 2
    /\ Cardinality(PriorDays) = 1
    /\ report.forecasts[1] = 3
    /\ report.forecasts[2] = 3

\* a report for a non-empty series
ReportForSeries == pc = "bt_returned" /\ report.returned /\ DOMAIN series # {}

\* the last date in the series
LastSeriesDay == SetMax(DOMAIN series)

\* C11 as stated: to is the earlier of the day before start_date and the last
\* date of the series, and from is to - (backtest_days - 1), also for
\* backtest_days <= 0.
C11_WindowAsStated ==
    ReportForSeries =>
        /\ report.window.to = Min(bt_start_date - 1, LastSeriesDay)
        /\ report.window.from = report.window.to - (backtest_days - 1)

\* C11 amended: to is the earlier of the day before start_date and the last
\* date of the series, and from is to - (max(1, backtest_days) - 1): a
\* backtest_days of 0 or below gives the one-day window from = to.
C11_WindowFlooredAtOneDay ==
    ReportForSeries =>
        /\ report.window.to = Min(bt_start_date - 1, LastSeriesDay)
        /\ report.window.from = report.window.to - (Max(1, backtest_days) - 1)
        /\ report.window.backtest_days = backtest_days

\* a report for backtest_days = -1 whose window is the single last day of the
\* series, the start date lying after the series
C11_Witness ==
    /\ ReportForSeries
    /\ backtest_days = -1
    /\ bt_start_date - 1 > LastSeriesDay
    /\ report.window.from = LastSeriesDay
    /\ report.window.to = LastSeriesDay
    /\ report.metrics.n = 1

\* a report whose window is empty
EmptyWindowReported == ReportForSeries /\ report.window.to < report.window.from

\* C12: a report with an empty window (to < from) has n = 0, null percentage
\* metrics and no daily errors, and neither the model path nor the fallback
\* has run.
C12_EmptyWindowZeroReport ==
    EmptyWindowReported =>
        /\ report.metrics.n = 0
        /\ \A f \in {"mape_pct", "smape_pct", "wape_pct", "bias_pct"} :
              f \in DOMAIN report.metrics /\ report.metrics[f] = Null
        /\ report.daily_errors = <<>>
        /\ fc_calls = <<>>
        /\ predicted = NoPrediction
        /\ model_forecasts = <<>>

\* the guard of line 161 is never true: the window has at least one day
C12_WindowNeverEmpty == ~EmptyWindowReported

\* the actual the series gives for a day: its value clipped at zero, or zero
\* for a day without an entry
ActualOfDay(d) == IF d \in DOMAIN series THEN (IF series[d] < 0 THEN 0 ELSE series[d]) ELSE 0

\* C27: for a non-empty series the report has n = max(1, backtest_days); every
\* window day is scored, a day without an entry in the series as actual 0,
\* and zero_actual_days + nonzero_actual_days = n.
C27_WindowNeverEmpty ==
    (report.returned /\ DOMAIN series # {}) =>
        LET n == IF backtest_days >= 1 THEN backtest_days ELSE 1
        IN  /\ report.metrics.n = n
            /\ report.window.to - report.window.from + 1 = n
            /\ Len(win.window) = n
            /\ Len(report.forecasts) = n
            /\ \A k \in 1..n : win.window[k] = ActualOfDay(report.window.from + k - 1)
            /\ report.metrics.zero_actual_days =
                    Cardinality({k \in 1..n : ActualOfDay(report.window.from + k - 1) = 0})
            /\ report.metrics.zero_actual_days + report.metrics.nonzero_actual_days = n

\* a two-day window that starts on a day without an entry in the series and
\* ends on a day with a positive actual
C27_Witness ==
    /\ report.returned
    /\ DOMAIN series # {}
    /\ backtest_days = 2
    /\ report.metrics.n = 2
    /\ report.window.from \notin DOMAIN series
    /\ report.window.to \in DOMAIN series
    /\ report.metrics.zero_actual_days = 1
    /\ report.metrics.nonzero_actual_days = 1

----------------------------------------------------------------------------
(* Properties of the scoring stage (specification SpecScore) *)

\* the window days whose actual is not zero
NonZeroDays == {k \in 1..Len(win.window) : Abs(win.window[k]) > 0}

\* v is the element at index m // 2 of the ascending list of the m non-zero
\* absolute actuals: at most m // 2 of them are smaller, and at least
\* m // 2 + 1 of them are not larger
IsUpperMedian(v) ==
    LET m == Cardinality(NonZeroDays)
    IN  /\ \E k \in NonZeroDays : Abs(win.window[k]) = v
        /\ Cardinality({k \in NonZeroDays : Abs(win.window[k]) < v}) <= m \div 2
        /\ Cardinality({k \in NonZeroDays : Abs(win.window[k]) <= v}) >= (m \div 2) + 1

\* C13: the reported floor (in hundredths) is 1.00 when the window has no
\* non-zero actual and otherwise max(1.00, 0.01 * v) for the upper median v of
\* the non-zero absolute actuals; it is never below 1.00, and it is the one
\* floor every returned day's ape was decided with.
C13_ApeFloor ==
    ReportHasMethod =>
        LET floor == report.metrics.ape_denominator_floor
        IN  /\ NonZeroDays = {} => floor = 100
            /\ NonZeroDays # {} =>
                  \E k \in NonZeroDays :
                      /\ IsUpperMedian(Abs(win.window[k]))
                      /\ floor = Max(100, Abs(win.window[k]))
            /\ floor >= 100
            /\ \A i \in 1..Len(report.daily_errors) :
                  report.daily_errors[i].ape.defined
                      <=> 100 * Abs(report.daily_errors[i].actual) >= floor

\* the window 0, 2, 200: two non-zero actuals, the upper one sets the floor
\* to 2.00, and all three days are returned
C13_Witness ==
    /\ ReportHasMethod
    /\ win.window = <<0, 2, 200>>
    /\ report.metrics.ape_denominator_floor = 200
    /\ Len(report.daily_errors) = 3

\* the absolute error of window day k as the claims state it
AbsErrorOfDay(k) == Abs(report.forecasts[k] - win.window[k])

\* the window days whose actual is not below the reported floor
ApeDays ==
    {k \in 1..Len(win.window) :
        100 * Abs(win.window[k]) >= report.metrics.ape_denominator_floor}

\* 100 * mean(abs_error / |actual|) over the days of D, in hundredths of a
\* percent
MeanApePct(D) ==
    LET days == SortedSeq(D)
    IN  MeanPct([i \in 1..Len(days) |->
                    Frac(AbsErrorOfDay(days[i]), Abs(win.window[days[i]]))])

\* C14: a returned day's ape is undefined exactly when |actual| is strictly
\* below the window's floor and is abs_error / |actual| otherwise, with a
\* non-zero denominator; a zero-actual day has no ape, and MAPE is the mean
\* over exactly the days at or above the floor.
C14_ApeDefinedFromFloor ==
    ReportHasMethod =>
        /\ \A i \in 1..Len(report.daily_errors) :
              LET p == report.daily_errors[i]
              IN  /\ ~p.ape.defined
                        <=> 100 * Abs(p.actual) < report.metrics.ape_denominator_floor
                  /\ p.actual = 0 => ~p.ape.defined
                  /\ p.ape.defined =>
                        /\ p.ape.value.d > 0
                        /\ p.ape.value.n * Abs(p.actual) = p.abs_error * p.ape.value.d
        /\ \A k \in ApeDays : win.window[k] # 0
        /\ report.metrics.mape_pct = MeanApePct(ApeDays)

\* the window 0, 1, 200 with forecasts 4, 4, 4: the floor is 2.00, the day
\* with actual 1 is non-zero and below it, and MAPE is the 98% of the last day
C14_Witness ==
    /\ ReportHasMethod
    /\ win.window = <<0, 1, 200>>
    /\ report.forecasts = <<4, 4, 4>>
    /\ Len(report.daily_errors) = 3
    /\ \E i \in 1..3 : report.daily_errors[i].actual = 1 /\ ~report.daily_errors[i].ape.defined
    /\ \E i \in 1..3 : report.daily_errors[i].actual = 200 /\ report.daily_errors[i].ape.defined
    /\ report.metrics.mape_pct = Some(9800)

\* C15: the outlier score of a returned daily error point is its ape when the
\* ape is defined, also when that ape is 0, and its abs_error only when the
\* ape is undefined.
C15_OutlierScore ==
    ReportHasMethod =>
        \A i \in 1..Len(report.daily_errors) :
            LET p == report.daily_errors[i]
            IN  /\ p.ape.defined =>
                    /\ OutlierScore(p) = p.ape.value
                    /\ OutlierScore(p).n * p.actual = p.abs_error * OutlierScore(p).d
                /\ ~p.ape.defined => OutlierScore(p) = Frac(p.abs_error, 1)

\* a report holding a day with ape 196/200 (abs_error 196), a day with ape 0
\* and a day without ape whose abs_error 4 is its score
C15_Witness ==
    /\ ReportHasMethod
    /\ win.window = <<0, 2, 200>>
    /\ report.forecasts = <<4, 2, 4>>
    /\ Len(report.daily_errors) = 3
    /\ \E i \in 1..3 : LET p == report.daily_errors[i]
                       IN  p.ape.defined /\ p.abs_error = 196 /\ OutlierScore(p) = Frac(196, 200)
    /\ \E i \in 1..3 : LET p == report.daily_errors[i]
                       IN  p.ape.defined /\ p.ape.value.n = 0 /\ OutlierScore(p).n = 0
    /\ \E i \in 1..3 : LET p == report.daily_errors[i]
                       IN  ~p.ape.defined /\ OutlierScore(p) = Frac(4, 1)

\* the daily error point of window day k as the claims state it
PointOfDay(k) ==
    [date |-> win.from + (k - 1),
     actual |-> win.window[k],
     forecast |-> report.forecasts[k],
     error |-> report.forecasts[k] - win.window[k],
     abs_error |-> AbsErrorOfDay(k),
     ape |-> IF k \in ApeDays
             THEN Some(Frac(AbsErrorOfDay(k), Abs(win.window[k])))
             ELSE Null]

\* the score of C15, as a pair numerator / denominator
ScoreOf(p) == IF p.ape.defined THEN p.ape.value ELSE Frac(p.abs_error, 1)

\* p ranks strictly before q: higher score, then higher abs_error, then
\* earlier date
RanksBefore(p, q) ==
    LET sp == ScoreOf(p)
        sq == ScoreOf(q)
    IN  \/ sp.n * sq.d > sq.n * sp.d
        \/ /\ sp.n * sq.d = sq.n * sp.d
           /\ \/ p.abs_error > q.abs_error
              \/ p.abs_error = q.abs_error /\ p.date < q.date

\* the number of entries both list modes keep
KeptCount == Min(Len(win.window), Max(1, report.args.daily_errors_limit))

\* the window days whose point is in the returned list
ReturnedDays ==
    {k \in 1..Len(win.window) :
        \E i \in 1..Len(report.daily_errors) : report.daily_errors[i] = PointOfDay(k)}

OutliersReport ==
    ReportHasMethod /\ report.args.include_daily_errors /\ report.args.outliers_only

\* C16: with include_daily_errors and outliers_only, daily_errors holds
\* min(n, max(1, daily_errors_limit)) points of distinct window days, each
\* ranking strictly before the next (score descending, then abs_error
\* descending, then date ascending), and every returned point ranks before
\* every omitted day's point.
C16_OutliersFirst ==
    OutliersReport =>
        /\ Len(report.daily_errors) = KeptCount
        /\ Cardinality(ReturnedDays) = KeptCount
        /\ \A i \in 1..(Len(report.daily_errors) - 1) :
              RanksBefore(report.daily_errors[i], report.daily_errors[i + 1])
        /\ \A k \in (1..Len(win.window)) \ ReturnedDays :
              \A i \in 1..Len(report.daily_errors) :
                  RanksBefore(report.daily_errors[i], PointOfDay(k))
        /\ \A j \in 1..Len(win.window) : \A k \in 1..Len(win.window) :
              j # k => (RanksBefore(PointOfDay(j), PointOfDay(k))
                            <=> ~RanksBefore(PointOfDay(k), PointOfDay(j)))

\* the window 1, 2, 200 with forecasts 2, 4, 4 and a limit of 2: the first two
\* days tie on ape 1, the second has the larger abs_error and comes first, and
\* the third day (ape 0.98) is omitted
C16_Witness ==
    /\ OutliersReport
    /\ report.args.daily_errors_limit = 2
    /\ win.window = <<1, 2, 200>>
    /\ report.forecasts = <<2, 4, 4>>
    /\ Len(report.daily_errors) = 2
    /\ report.daily_errors[1] = PointOfDay(2)
    /\ report.daily_errors[2] = PointOfDay(1)

RecentReport ==
    ReportHasMethod /\ report.args.include_daily_errors /\ ~report.args.outliers_only

\* C17: with include_daily_errors and without outliers_only, daily_errors is
\* the points of the last min(n, max(1, daily_errors_limit)) window days,
\* oldest first; in both list modes a daily_errors_limit of 0 or below keeps
\* exactly one point.
C17_MostRecentDays ==
    /\ RecentReport =>
          /\ Len(report.daily_errors) = KeptCount
          /\ \A i \in 1..KeptCount :
                report.daily_errors[i] = PointOfDay(Len(win.window) - KeptCount + i)
    /\ (ReportHasMethod /\ report.args.include_daily_errors
            /\ report.args.daily_errors_limit <= 0) =>
          Len(report.daily_errors) = 1

\* a three-day window with a limit of 2: the last two days are returned,
\* oldest first, although the omitted first day has the largest error
C17_Witness ==
    /\ RecentReport
    /\ report.args.daily_errors_limit = 2
    /\ win.window = <<200, 2, 2>>
    /\ report.forecasts = <<0, 2, 4>>
    /\ Len(report.daily_errors) = 2
    /\ report.daily_errors[1].date = win.from + 1
    /\ report.daily_errors[2].date = win.from + 2

WindowDays == 1..Len(win.window)

SumActual == SumSeq(win.window)

SumAbsError == SumSeq([k \in WindowDays |-> AbsErrorOfDay(k)])

SumError == SumSeq([k \in WindowDays |-> report.forecasts[k] - win.window[k]])

\* a reported percentage (in hundredths of a percent) that is exactly
\* 100 * num / den
IsExactPct(pct, num, den) ==
    pct.defined /\ pct.value * den = 10000 * num

\* a reported percentage that is 100 * num / den rounded to two decimals: no
\* other multiple of 0.01 is nearer (den > 0)
IsRoundedPct(pct, num, den) ==
    pct.defined /\ 2 * Abs(pct.value * den - 10000 * num) <= den

\* the null rules of the four percentages
PctNullRules ==
    /\ report.metrics.wape_pct = Null <=> SumActual = 0
    /\ report.metrics.bias_pct = Null <=> SumActual = 0
    /\ report.metrics.mape_pct = Null <=> ApeDays = {}
    /\ report.metrics.smape_pct = Null
          <=> \A k \in WindowDays : Abs(win.window[k]) + Abs(report.forecasts[k]) = 0

\* C18 as stated: the reported wape_pct and bias_pct are the exact quotients.
C18_ExactPercentages ==
    ReportHasMethod =>
        /\ PctNullRules
        /\ SumActual # 0 =>
              /\ IsExactPct(report.metrics.wape_pct, SumAbsError, SumActual)
              /\ IsExactPct(report.metrics.bias_pct, SumError, SumActual)

\* C18 amended: over a non-empty window wape_pct is 100 * sum(abs_error) /
\* sum(actual) and bias_pct is 100 * sum(error) / sum(actual), error being
\* forecast - actual, each rounded to two decimals; both are null exactly when
\* sum(actual) = 0, mape_pct exactly when no day has an ape, smape_pct exactly
\* when |actual| + |forecast| = 0 on every day.
C18_RoundedPercentages ==
    ReportHasMethod =>
        /\ Len(win.window) > 0
        /\ Len(report.forecasts) = Len(win.window)
        /\ PctNullRules
        /\ SumActual # 0 =>
              /\ IsRoundedPct(report.metrics.wape_pct, SumAbsError, SumActual)
              /\ IsRoundedPct(report.metrics.bias_pct, SumError, SumActual)

\* the window 1, 2 with forecasts 0, 2: sum(actual) = 3, sum(abs_error) = 1
\* and sum(error) = -1, reported as 33.33 and -33.33
C18_Witness ==
    /\ ReportHasMethod
    /\ win.window = <<1, 2>>
    /\ report.forecasts = <<0, 2>>
    /\ report.metrics.wape_pct = Some(3333)
    /\ report.metrics.bias_pct = Some(-3333)
    /\ report.metrics.mape_pct.defined
    /\ report.metrics.smape_pct.defined

----------------------------------------------------------------------------
(* Properties of the loaders (specifications SpecLoadSeq and SpecLoad) *)

\* the objects a call key has handed back so far
ServedObjects(c) ==
    {served[c][i].obj : i \in {k \in 1..Len(served[c]) : served[c][k].error = None}}

\* C19: in a sequential series of load_model and load_feature_list calls the
\* artifact of a key is read from storage at most once, and every call that
\* returns for that key returns the same object
C19_SequentialLoadsCached ==
    \A c \in LoaderCalls :
        /\ storage_reads[c] <= 1
        /\ Cardinality(ServedObjects(c)) <= 1

\* a first call failed on the missing artifact, the next one read it once and
\* a third one got the same object back without a read
C19_Witness ==
    LET c == [fn |-> "load_model", model_key |-> "export", q |-> "p50"]
    IN  /\ served[c] = <<Raised("FileNotFoundError"), Returned(1), Returned(1)>>
        /\ storage_reads[c] = 1
        /\ \A t \in Threads : th[t].pc = "idle"

\* C20: when requests perform the first load of the same (model_key, quantile)
\* key concurrently, the artifact is read from storage at most once
C20_ConcurrentFirstLoadsReadOnce ==
    \A c \in LoaderCalls : c.fn = "load_model" => storage_reads[c] <= 1

\* the metric fields of the backtest output
MetricFields ==
    {"n", "method", "method_error", "zero_actual_days", "nonzero_actual_days",
     "ape_denominator_floor", "mape_pct", "smape_pct", "wape_pct", "bias_pct"}

\* C23: every report returned by compute_naive_backtest_metrics, also the
\* zero-observation report of an empty series or an empty window, carries all
\* ten metric fields.
C23_AllMetricFields ==
    report.returned => MetricFields \subseteq DOMAIN report.metrics

----------------------------------------------------------------------------
(* Properties of the serving process (specification SpecServe) *)

\* the forecast_next_days call a step has just logged
LastRequest == requests'[Len(requests')]

\* C21: a forecast_next_days call made while an artifact of the model (p50,
\* p05, p95 or the feature list) is missing ends with FileNotFoundError and
\* without a forecast point; in the backtest the walk then ends in the except
\* branch with no prediction kept, and the forecasts scored are the naive
\* persistence over the whole window.
C21_MissingArtifactRaises ==
    [][/\ (requests' # requests /\ ServeArtifacts \ artifacts # {}) =>
            /\ LastRequest.error = "FileNotFoundError"
            /\ LastRequest.out = <<>>
            /\ LastRequest.path = "backtest" =>
                    /\ pc' = "bt_predicted"
                    /\ predicted' = ExceptResult(<<>>, "FileNotFoundError")
       /\ (pc' \in {"bt_score", "bt_returned"} /\ walk_raised' = "FileNotFoundError") =>
            /\ predicted'.method = FallbackMethod
            /\ Len(model_forecasts') = Len(win'.window)
            /\ model_forecasts' =
                    NaivePersistence(NaiveStart(heap'["history_values"]), win'.window)
       /\ (pc' = "bt_returned" /\ walk_raised' = "FileNotFoundError") =>
            /\ report'.metrics.method = FallbackMethod
            /\ report'.forecasts = model_forecasts']_vars

\* only the p95 artifact is missing: a direct request raised after p50 and p05
\* were read, and the backtest reported the naive fallback over two days
C21_Witness ==
    /\ artifacts = ServeArtifacts \ {ModelCalls(ServeModelKey)[3]}
    /\ storage_reads[ModelCalls(ServeModelKey)[1]] = 1
    /\ storage_reads[ModelCalls(ServeModelKey)[2]] = 1
    /\ \E i \in 1..Len(requests) :
          /\ requests[i].path = "direct"
          /\ requests[i].error = "FileNotFoundError"
          /\ requests[i].out = <<>>
    /\ pc = "bt_returned"
    /\ walk_raised = "FileNotFoundError"
    /\ report.metrics.method = FallbackMethod
    /\ report.metrics.n = 2
    /\ report.forecasts = <<0, 0>>

SameInputs(r, q) ==
    r.history = q.history /\ r.start_date = q.start_date /\ r.horizon = q.horizon

----------------------------------------------------------------------------
(* Properties of _compute_next_row_features (specification SpecFeatures) *)

FeaturesReturned == pc = "feat_returned"

HasFeature(name) == \E k \in 1..Len(models.feature_cols) : models.feature_cols[k] = name

\* the value of the named feature in the returned row
FeatureNamed(name) ==
    rows[1][CHOOSE k \in 1..Len(models.feature_cols) : models.feature_cols[k] = name]

\* log1p of the clamped history value at position i (counted from 1)
LogAt(i) == Log1p(IF history_in[i] < 0 THEN 0 ELSE history_in[i])

MeanOf(s) == IF s = <<>> THEN 0 ELSE SumSeq(s) \div Len(s)

StdOf(s) ==
    IF s = <<>> THEN 0
    ELSE LET mu == SumSeq(s) \div Len(s)
         IN  ISqrt(SumSeq([k \in 1..Len(s) |-> (s[k] - mu) * (s[k] - mu)]) \div Len(s))

\* the last min(w, m) log values among the first m of the history
PastWindow(m, w) ==
    LET size == IF w <= m THEN w ELSE m
    IN  [k \in 1..size |-> LogAt(m - size + k)]

RollWidths == {7, 14, 28}

RollMeanName == (7 :> "roll_mean_7") @@ (14 :> "roll_mean_14") @@ (28 :> "roll_mean_28")

RollStdName == (7 :> "roll_std_7") @@ (14 :> "roll_std_14") @@ (28 :> "roll_std_28")

\* the rolling features are the mean and deviation of the last min(w, m) log
\* values among the first m of the history
RollingOver(m) ==
    \A w \in RollWidths :
        /\ HasFeature(RollMeanName[w]) =>
                FeatureNamed(RollMeanName[w]) = MeanOf(PastWindow(m, w))
        /\ HasFeature(RollStdName[w]) =>
                FeatureNamed(RollStdName[w]) = StdOf(PastWindow(m, w))

LagWidths == {1, 7, 14, 28}

LagName == (1 :> "lag_1") @@ (7 :> "lag_7") @@ (14 :> "lag_14") @@ (28 :> "lag_28")

\* C25: for a history of length L, lag_k is the log1p of the clamped value k
\* places from the end when L >= k, and of the first value when L < k.
C25_LagOrOldest ==
    FeaturesReturned =>
        \A k \in LagWidths :
            HasFeature(LagName[k]) =>
                FeatureNamed(LagName[k]) =
                    IF Len(history_in) >= k
                    THEN LogAt(Len(history_in) - k + 1)
                    ELSE LogAt(1)

\* ten days of history: lag_7 is taken seven places from the end, lag_14 and
\* lag_28 are the oldest value, which is not zero
C25_Witness ==
    /\ FeaturesReturned
    /\ Len(history_in) = 10
    /\ models.feature_cols = AllFeatures
    /\ FeatureNamed("lag_7") = LogAt(4)
    /\ FeatureNamed("lag_14") = LogAt(1)
    /\ FeatureNamed("lag_28") = LogAt(1)
    /\ LogAt(1) > 0
    /\ LogAt(4) # LogAt(1)
    /\ FeatureNamed("lag_1") # FeatureNamed("lag_7")

----------------------------------------------------------------------------
(* Properties of predict_xgb (specification SpecPredict) *)

\* some row of the call has another length than the trained feature list
RowLengthDiffers ==
    \E i \in 1..Len(px.features.rows) :
        Len(px.features.rows[i]) # Len(models.feature_cols)

\* C26: predict_xgb ends with an error and without a prediction when the
\* vector, or a row of the batch, has another length than the trained feature
\* list; when it returns there is one prediction per row, computed on the row
\* as it was passed, and none is below zero.
C26_ShapeMismatchRejected ==
    pc \in {"px_returned", "px_raised"} =>
        /\ RowLengthDiffers => (pc = "px_raised" /\ px.error # None /\ px.preds = <<>>)
        /\ pc = "px_returned" =>
              /\ px.error = None
              /\ Len(px.preds) = Len(px.features.rows)
              /\ \A i \in 1..Len(px.preds) :
                    /\ px.preds[i] >= 0
                    /\ px.preds[i] =
                          Max(0, Expm1(BoosterPredict(models.b50, px.features.rows[i])))

\* the artifacts were loaded and a vector one value longer than the four
\* trained features was rejected with ValueError
C26_Witness ==
    /\ pc = "px_raised"
    /\ artifacts = ServeArtifacts
    /\ storage_reads[PredictCalls(ServeModelKey)[1]] = 1
    /\ storage_reads[PredictCalls(ServeModelKey)[2]] = 1
    /\ px.features.kind = "vector"
    /\ Len(px.features.rows[1]) = 5
    /\ Len(models.feature_cols) = 4
    /\ px.error = "ValueError"
    /\ px.preds = <<>>

----------------------------------------------------------------------------
(* Independence of the report from the list options (specification SpecScore) *)

\* the terms of every window day, from the window and the forecasts scored
AllDayPoints == ErrorPoints(win.idx, win.window, model_forecasts)

\* C28: the window and metrics blocks of a report are given by the series,
\* start_date, backtest_days and the forecasts alone, whatever
\* include_daily_errors, daily_errors_limit and outliers_only are; without
\* include_daily_errors the list is empty.
C28_ReportIndependentOfListOptions ==
    /\ ReportHasMethod =>
          /\ report.window = [from |-> win.from, to |-> win.to,
                              backtest_days |-> backtest_days]
          /\ report.metrics =
                Metrics(AllDayPoints, win.window, predicted.method, predicted.error)
          /\ report.metrics.n = Len(win.window)
          /\ report.metrics.ape_denominator_floor = ApeFloor(win.window)
          /\ ~report.args.include_daily_errors => report.daily_errors = <<>>
    /\ (report.returned /\ ~ReportHasMethod) =>
          /\ report.metrics = ZeroReport
          /\ report.daily_errors = <<>>

\* the outliers-only list of a three-day window was cut to one point, the
\* aggregates are over all three days
C28_Witness ==
    /\ ReportHasMethod
    /\ report.args.include_daily_errors
    /\ report.args.outliers_only
    /\ report.args.daily_errors_limit = 0
    /\ win.window = <<1, 2, 200>>
    /\ report.forecasts = <<2, 4, 4>>
    /\ Len(report.daily_errors) = 1
    /\ report.metrics.n = 3
    /\ report.metrics.mape_pct.defined
    /\ report.metrics.wape_pct = Some(9803)

----------------------------------------------------------------------------
(* The contents of the loader caches (specification SpecLoad) *)

\* the file table entry a call looks up
FileKeyOf(c) == IF c.fn = "load_model" THEN <<c.model_key, c.q>> ELSE c.model_key

FileKeys(fn) == IF fn = "load_model" THEN ModelFileKeys ELSE FeatureFileKeys

LastServed(c) == served'[c][Len(served'[c])]

\* C29: a call that raises leaves the caches as they were, and a later call
\* for its key that finds the artifact reads it, returns the object and caches
\* it; the caches hold only objects that were read for a key of the file
\* tables, at most one per key, stay within maxsize and never lose an entry.
C29_FailedLoadNotCached ==
    [][/\ \A fn \in LoaderFns :
            /\ CacheKeys(lru[fn]) \subseteq CacheKeys(lru'[fn])
            /\ Len(lru'[fn]) = Cardinality(CacheKeys(lru'[fn]))
            /\ Len(lru'[fn]) <= Cardinality(FileKeys(fn))
            /\ Cardinality(FileKeys(fn)) <= MaxSize(fn)
            /\ \A c \in CacheKeys(lru'[fn]) :
                  /\ c.fn = fn
                  /\ FileKeyOf(c) \in FileKeys(fn)
                  /\ CacheGet(lru'[fn], c) \in 1..storage_reads'[c]
                  /\ \E i \in 1..Len(served'[c]) :
                        served'[c][i] = Returned(CacheGet(lru'[fn], c))
       /\ Cardinality(ModelFileKeys) = 12
       /\ \A c \in LoaderCalls :
            (served'[c] # served[c] /\ LastServed(c).error # None) =>
                /\ lru' = lru
                /\ c \notin CacheKeys(lru'[c.fn])
                /\ storage_reads' = storage_reads
       /\ \A t \in Threads :
            /\ (th[t].pc = "miss" /\ th'[t] # th[t] /\ th[t].call \in artifacts) =>
                  th'[t].pc = "open"
            /\ (th[t].pc = "open" /\ th'[t] # th[t]) =>
                  /\ th'[t].pc = "loaded"
                  /\ storage_reads'[th[t].call] = storage_reads[th[t].call] + 1
            /\ (th[t].pc = "loaded" /\ th'[t] # th[t]) =>
                  /\ LastServed(th[t].call) = Returned(th[t].obj)
                  /\ th[t].call \in CacheKeys(lru'[th[t].call.fn])]_vars

\* load_model("export", "p50") raised for the missing artifact and, after the
\* artifact was written, read it and cached it; a call with an unknown model
\* key raised; two model objects are cached
C29_Witness ==
    LET c == [fn |-> "load_model", model_key |-> "export", q |-> "p50"]
        d == [fn |-> "load_model", model_key |-> "export", q |-> "p05"]
    IN  /\ served[c] = <<Raised("FileNotFoundError"), Returned(1)>>
        /\ served[d] = <<Returned(1)>>
        /\ storage_reads[c] = 1
        /\ CacheKeys(lru["load_model"]) = {c, d}
        /\ \A t \in Threads : th[t].pc = "idle"

\* a call with an unknown model key raised KeyError and nothing was cached
C29_UnknownKeyWitness ==
    LET u == [fn |-> "load_feature_list", model_key |-> "nokey", q |-> NoQuantile]
    IN  /\ served[u] = <<Raised("KeyError"), Raised("KeyError")>>
        /\ lru["load_feature_list"] = <<>>

----------------------------------------------------------------------------
(* The run store: create_run and get_run_series of routes/runs.py.  Every  *)
(* `with get_conn()` block is one transaction on a connection of its own   *)
(* (db.py lines 56-66: commit on leaving the block), so each block is one  *)
(* step; the endpoints are sync functions run on the server's thread pool, *)
(* so the blocks of different requests interleave.                         *)

\* now_iso() (lines 54-55): the clock does not run backwards and two
\* readings may be equal
NowIso == {t \in now..(now + 1) : t <= MaxClock}

\* json.dumps(sr.model_dump()) of line 449 and json.loads / SeriesResponse(**payload)
\* of lines 443-444
DumpSeries(sr) == [json |-> <<sr.run_id, sr.generated_at>>]
LoadSeries(series_json) ==
    [run_id |-> series_json.json[1], generated_at |-> series_json.json[2]]

\* build_series_from_params (lines 271-320): the fields of the response that
\* tell two builds apart, meta.run_id and meta.generated_at
BuildSeriesFromParams(run_id, t) == [run_id |-> run_id, generated_at |-> t]

\* get_run_series requests started so far
SeriesRequestsStarted ==
    Len(responses) + Cardinality({t \in Threads : rh[t].pc # "idle"})

Respond(run_id, code, sr) ==
    Append(responses, [run_id |-> run_id, code |-> code, series |-> sr])

InitRuns ==
    /\ pc = "runs"
    /\ heap = EmptyHeap
    /\ models = CHOOSE M \in BacktestModelSets : TRUE
    /\ start_date = [day |-> 0, hour |-> 0]
    /\ horizon_days = 0
    /\ history_in = <<>>
    /\ current = 0
    /\ out = <<>>
    /\ rows = <<>>
    /\ BtIdle
    /\ LoaderIdle
    /\ ServeIdle

\* create_run (lines 391-421): load_daily_weight_series succeeds or raises
\* (lines 400-410), then the row is inserted with the status that follows
CreateRun ==
    /\ \E run_id \in RunIds :
          /\ runs[run_id] = Null
          /\ \A r \in RunIds : r < run_id => runs[r] # Null
          /\ \E loaded \in BOOLEAN, created \in NowIso :
                /\ now' = created
                /\ runs' = [runs EXCEPT ![run_id] =
                              Some([status |-> IF loaded THEN "success" ELSE "failed",
                                    finished_at |-> created,
                                    message |-> IF loaded
                                                THEN "Run created (series reproducible)."
                                                ELSE "Run failed.",
                                    error |-> IF loaded THEN None ELSE "load error"])]
    /\ UNCHANGED <<run_series, rh, responses, series_writes>>
    /\ UNCHANGED <<pc, heap, models, fvars, bvars, lvars, requests, px>>

\* get_run_series lines 431-433: _get_run_or_404 and the status check
GetRun(t, run_id) ==
    /\ rh[t].pc = "idle"
    /\ SeriesRequestsStarted < MaxSeriesRequests
    /\ IF runs[run_id] = Null
       THEN /\ responses' = Respond(run_id, 404, None)
            /\ UNCHANGED rh
       ELSE IF runs[run_id].value.status = "failed"
       THEN /\ responses' = Respond(run_id, 409, None)
            /\ UNCHANGED rh
       ELSE /\ rh' = [rh EXCEPT ![t] = [pc |-> "select", run_id |-> run_id, sr |-> None]]
            /\ UNCHANGED responses
    /\ UNCHANGED <<runs, run_series, now, series_writes>>
    /\ UNCHANGED <<pc, heap, models, fvars, bvars, lvars, requests, px>>

\* lines 436-444: the stored row, if there is one, is the response
SelectSeries(t) ==
    /\ rh[t].pc = "select"
    /\ IF run_series[rh[t].run_id] # Null
       THEN /\ responses' = Respond(rh[t].run_id, 200,
                                    LoadSeries(run_series[rh[t].run_id].value.series_json))
            /\ rh' = [rh EXCEPT ![t] = IdleHandler]
       ELSE /\ rh' = [rh EXCEPT ![t].pc = "build"]
            /\ UNCHANGED responses
    /\ UNCHANGED <<runs, run_series, now, series_writes>>
    /\ UNCHANGED <<pc, heap, models, fvars, bvars, lvars, requests, px>>

\* lines 447-451: the series is built, or the data load of line 272 raises
BuildSeries(t) ==
    /\ rh[t].pc = "build"
    /\ \E loaded \in BOOLEAN, generated_at \in NowIso :
          IF loaded
          THEN /\ now' = generated_at
               /\ rh' = [rh EXCEPT ![t].pc = "persist",
                                   ![t].sr = BuildSeriesFromParams(rh[t].run_id, generated_at)]
               /\ UNCHANGED responses
          ELSE /\ responses' = Respond(rh[t].run_id, 500, None)
               /\ rh' = [rh EXCEPT ![t] = IdleHandler]
               /\ UNCHANGED now
    /\ UNCHANGED <<runs, run_series, series_writes>>
    /\ UNCHANGED <<pc, heap, models, fvars, bvars, lvars, requests, px>>

\* lines 453-464: INSERT OR REPLACE of the row, the UPDATE of the run, the
\* commit, and the built series as the response
PersistSeries(t) ==
    /\ rh[t].pc = "persist"
    /\ \E finished \in NowIso :
          /\ now' = finished
          /\ runs' = [runs EXCEPT ![rh[t].run_id] =
                        Some([@.value EXCEPT !.status = "success",
                                             !.finished_at = finished,
                                             !.message = "Series materialized."])]
    /\ run_series' = [run_series EXCEPT ![rh[t].run_id] =
                        Some([series_json |-> DumpSeries(rh[t].sr),
                              generated_at |-> rh[t].sr.generated_at])]
    /\ series_writes' = [series_writes EXCEPT ![rh[t].run_id] = @ + 1]
    /\ responses' = Respond(rh[t].run_id, 200, rh[t].sr)
    /\ rh' = [rh EXCEPT ![t] = IdleHandler]
    /\ UNCHANGED <<pc, heap, models, fvars, bvars, lvars, requests, px>>

NextRuns ==
    \/ CreateRun
    \/ \E t \in Threads, run_id \in RunIds : GetRun(t, run_id)
    \/ \E t \in Threads : SelectSeries(t)
    \/ \E t \in Threads : BuildSeries(t)
    \/ \E t \in Threads : PersistSeries(t)

SpecRuns == InitRuns /\ [][NextRuns]_vars

----------------------------------------------------------------------------
(* Properties of get_run_series *)

\* the responses that carry a series
SeriesResponses == {i \in 1..Len(responses) : responses[i].code = 200}

\* the runs create_run stored as failed
FailedRuns == {r \in RunIds : runs[r] # Null /\ runs[r].value.status = "failed"}

\* what get_run_series has stored and answered so far is one materialization
\* per run; a 404 answers a request made before the run was created
MaterializedOnce ==
    /\ \A r \in RunIds : series_writes[r] <= 1
    /\ \A i \in SeriesResponses :
          /\ run_series[responses[i].run_id] # Null
          /\ responses[i].series =
                LoadSeries(run_series[responses[i].run_id].value.series_json)
          /\ responses[i].series.generated_at =
                run_series[responses[i].run_id].value.generated_at
    /\ \A r \in FailedRuns :
          /\ run_series[r] = Null
          /\ series_writes[r] = 0
          /\ \A i \in 1..Len(responses) :
                responses[i].run_id = r => responses[i].code \in {404, 409}

\* C30: a run that is not failed has its series materialized at most once:
\* run_series is written at most once per run (so no later call writes), every
\* response that carries a series equals the series stored in run_series,
\* generated_at included, also when requests race on the first access; a failed
\* run is answered 409, has no run_series row and its row in runs never changes.
C30_MaterializedAtMostOnce ==
    [][/\ MaterializedOnce'
       /\ \A r \in FailedRuns : runs'[r] = runs[r]]_vars

====
